---- MODULE Spec2Model ----
(***************************************************************************)
(* Model of the display-profile store of eink_art_gallery                  *)
(* (src/app/display_config_manager.py): two directories of "<name>.yaml"   *)
(* files, the default tier shipped with the addon and the persistent       *)
(* (override) tier under /data, and the DisplayConfigManager methods that  *)
(* read and write them.                                                    *)
(*                                                                         *)
(* A name and a text are sequences of characters.  A character is a        *)
(* one-character string, except that "CR" and "LF" stand for the carriage  *)
(* return and the line feed, "U+00E9" for the non-ASCII letter e-acute,    *)
(* and each Line* string stands for the characters of one line of a        *)
(* profile file.  The names of this model are single path components:      *)
(* they hold no "/", so "<name>.yaml" is a file of the directory itself.   *)
(***************************************************************************)
EXTENDS Integers, Sequences, FiniteSets, TLC

VARIABLES files, last, gallery, img, tasks

vars == <<files, last, gallery, img, tasks>>

\* what the profile store does not touch: the image gallery, the last image
\* processed, the requests in flight
outside_store == <<gallery, img, tasks>>

\* the value of a variable in a specification that does not use it
Unused == <<"<unused>">>

-----------------------------------------------------------------------------
(* Bounds *)

\* at most this many files are kept in the persistent directory at a time
MaxOverrides == 2

-----------------------------------------------------------------------------
(* Names *)

NameA == <<"a">>
NameB == <<"b">>
NameUnderscore == <<"_">>
NameUnicode == <<"U+00E9">>

\* the names of the files of the two directories: two names that match the
\* pattern [A-Za-z0-9_-]+ and pass the name test of the code, one that matches
\* the pattern and fails the test, one that does not match and passes
Names == {NameA, NameB, NameUnderscore, NameUnicode}

\* placeholder for an argument an operation does not take
NoName == <<"<none>">>

\* the ASCII letters and digits that occur in names and file names
AsciiAlnum == {"a", "b", "y", "m", "l", "1"}

\* str.isalnum() is Unicode aware: letters and digits of any script count
CharIsAlnum(ch) == ch \in AsciiAlnum \cup {"U+00E9"}

\* str.isalnum(): non-empty and every character alphanumeric
isalnum(s) ==
    /\ Len(s) > 0
    /\ \A i \in 1..Len(s) : CharIsAlnum(s[i])

\* str.replace(ch, ""): drop every occurrence of ch
replace(s, ch) == SelectSeq(s, LAMBDA c : c # ch)

\* the name test of duplicate and import, TRUE when the name is accepted:
\* not (not name or not name.replace("_", "").replace("-", "").isalnum())
name_check(name) ==
    /\ name # <<>>
    /\ isalnum(replace(replace(name, "_"), "-"))

-----------------------------------------------------------------------------
(* Texts *)

LineRes == "resolution: {width: 800, height: 480}"
LineResSmall == "resolution: {width: 4, height: 3}"
LinePal == "color_mapping: {palette: [[0, 0, 0], [255, 255, 255]]}"
LinePalRed == "color_mapping: {palette: [[0, 0, 0], [255, 0, 0]]}"
LinePalNoBlack == "color_mapping: {palette: [[255, 0, 0], [255, 255, 255]]}"
LinePalEmpty == "color_mapping: {palette: []}"
LinePalShort == "color_mapping: {palette: [[0, 0]]}"
LineGamma == "gamma: 2.2"
LineBad == "resolution: ["

\* a valid profile with Unix line ends
CfgLF == <<LineRes, "LF", LinePalRed, "LF">>
\* a valid profile with Windows line ends
CfgCRLF == <<LineRes, "CR", "LF", LinePalRed, "CR", "LF">>
\* well-formed YAML, a mapping without the resolution key
CfgNoRes == <<LinePalRed, "LF", LineGamma, "LF">>
\* not well-formed YAML: a flow sequence that is never closed
CfgBad == <<LineBad, "LF">>
\* the profiles shipped in the default directory
CfgDefault == <<LineRes, "LF", LinePal, "LF">>
\* a profile whose palette has no black, with a gamma
CfgNoBlack == <<LineRes, "LF", LinePalNoBlack, "LF", LineGamma, "LF">>
\* a profile whose palette is the empty list
CfgEmptyPal == <<LineRes, "LF", LinePalEmpty, "LF">>
\* a valid profile of a small panel
CfgSmall == <<LineResSmall, "LF", LinePalRed, "LF">>
\* a profile whose palette holds a colour of two channels
CfgShortColour == <<LineRes, "LF", LinePalShort, "LF">>

Texts == {CfgLF, CfgCRLF, CfgNoRes, CfgBad}

NoFile == <<"<no file>">>
NoText == <<"<no text>">>

\* open(path, "w").write(text) on Linux: "\n" is written as os.linesep, which
\* is "\n"; "\r" is written as it is
WriteText(text) == text

RECURSIVE ReadText(_)
\* open(path, "r").read(): universal newlines, "\r\n" and "\r" are read as "\n"
ReadText(bytes) ==
    IF bytes = <<>> THEN <<>>
    ELSE IF Head(bytes) = "CR"
         THEN IF Len(bytes) >= 2 /\ bytes[2] = "LF"
              THEN <<"LF">> \o ReadText(SubSeq(bytes, 3, Len(bytes)))
              ELSE <<"LF">> \o ReadText(Tail(bytes))
         ELSE <<Head(bytes)>> \o ReadText(Tail(bytes))

HasLine(text, line) == \E i \in 1..Len(text) : text[i] = line

Black == <<0, 0, 0>>
White == <<255, 255, 255>>
Red == <<255, 0, 0>>
Grey == <<128, 128, 128>>

\* the palette a color_mapping line of a profile file spells out
PaletteOf(line) ==
    CASE line = LinePal -> <<Black, White>>
      [] line = LinePalRed -> <<Black, Red>>
      [] line = LinePalNoBlack -> <<Red, White>>
      [] line = LinePalEmpty -> <<>>
      [] line = LinePalShort -> << <<0, 0>> >>

PaletteLines == {LinePal, LinePalRed, LinePalNoBlack, LinePalEmpty, LinePalShort}

\* yaml.safe_load(text): a YAMLError for text that is not well-formed, otherwise
\* the parsed mapping (gamma is "1.0" where the file has none, the default
\* of DisplayConfig); "\r\n", "\r" and "\n" are all line breaks to the parser
yaml_safe_load(text) ==
    [error |-> HasLine(text, LineBad),
     resolution |-> IF HasLine(text, LineRes)
                    THEN [width |-> 800, height |-> 480]
                    ELSE IF HasLine(text, LineResSmall)
                    THEN [width |-> 4, height |-> 3] ELSE <<>>,
     color_mapping |-> IF \E line \in PaletteLines : HasLine(text, line)
                       THEN [palette |->
                                 PaletteOf(CHOOSE line \in PaletteLines :
                                               HasLine(text, line))]
                       ELSE <<>>,
     gamma |-> IF HasLine(text, LineGamma) THEN "2.2" ELSE "1.0"]

\* DisplayConfig.__init__: TRUE when the constructor returns, FALSE when it
\* raises ValueError (a required field is missing)
DisplayConfigInit(config_data) ==
    /\ ~ ( \/ DOMAIN config_data.resolution = {}
           \/ "width" \notin DOMAIN config_data.resolution
           \/ "height" \notin DOMAIN config_data.resolution )
    /\ ~ ( \/ DOMAIN config_data.color_mapping = {}
           \/ "palette" \notin DOMAIN config_data.color_mapping )

\* a ProfileModel can be built from the text: it parses and the constructor
\* accepts the parsed mapping
BuildsProfile(text) ==
    /\ ~ yaml_safe_load(text).error
    /\ DisplayConfigInit(yaml_safe_load(text))

\* the number of entries of the palette data: 256 colours of 3 channels
PaletteDataLen == 768

RECURSIVE flatten(_)
\* palette_data of get_palette_image: the channels of the colours in a row
flatten(palette) ==
    IF palette = <<>> THEN <<>> ELSE Head(palette) \o flatten(Tail(palette))

\* entry i (from 1) of the palette data after
\* while len(palette_data) < 768: palette_data.append(0)
padded(palette_data, i) ==
    IF i <= Len(palette_data) THEN palette_data[i] ELSE 0

\* the colour check of get_palette_image: TRUE when it raises ValueError,
\* a colour that has not three channels
invalid_color_format(config) ==
    \E i \in 1..Len(config.color_mapping.palette) :
        Len(config.color_mapping.palette[i]) # 3

\* DisplayConfig.get_palette_image: ValueError for an invalid colour, else
\* the palette of the "P" image, the colours of the padded palette data:
\* slot k (from 0) is at index k + 1
get_palette_image(config) ==
    IF invalid_color_format(config)
    THEN [exc |-> "ValueError", palette |-> <<>>]
    ELSE [exc |-> "",
          palette |->
              [k \in 1..(PaletteDataLen \div 3) |->
                  <<padded(flatten(config.color_mapping.palette), 3 * k - 2),
                    padded(flatten(config.color_mapping.palette), 3 * k - 1),
                    padded(flatten(config.color_mapping.palette), 3 * k)>>]]

-----------------------------------------------------------------------------
(* The two directories *)

Ext == <<".", "y", "a", "m", "l">>

\* f"{display_name}.yaml"
yaml_name(display_name) == display_name \o Ext

\* the token "DEFAULT_DIR/" stands for the characters of the absolute path of
\* the default directory and the "/" after it: a name that starts with it is
\* an absolute path
AbsDefaultA == <<"DEFAULT_DIR/">> \o NameA

\* dir / f"{display_name}.yaml": joining an absolute path gives that path,
\* whatever dir is
file_in(dir, display_name) ==
    IF display_name # <<>> /\ Head(display_name) = "DEFAULT_DIR/"
    THEN <<"default", Tail(display_name)>>
    ELSE <<dir, display_name>>

\* self.persistent_dir / f"{display_name}.yaml"
persistent_file(display_name) == file_in("persistent", display_name)

\* self.default_dir / f"{display_name}.yaml"
default_file(display_name) == file_in("default", display_name)

Paths == {"persistent", "default"} \X Names

\* the path that get_display_config_file does not return when it raises
NoPath == <<"none", NoName>>

\* Path.exists()
exists(f, path) == f[path] # NoFile

\* the names that have a file in the persistent directory
Overrides(f) == {n \in Names : exists(f, persistent_file(n))}

\* the names that have a file in the default directory
Defaults(f) == {n \in Names : exists(f, default_file(n))}

get_display_config_file_mutant(f, display_name) ==
    IF exists(f, default_file(display_name)) THEN default_file(display_name)
    ELSE IF exists(f, persistent_file(display_name))
         THEN persistent_file(display_name)
         ELSE NoPath

\* DisplayConfigManager.get_display_config_file: the persistent file when it
\* exists, else the default file when it exists, else FileNotFoundError
get_display_config_file(f, display_name) ==
    IF exists(f, persistent_file(display_name)) THEN persistent_file(display_name)
    ELSE IF exists(f, default_file(display_name))
         THEN default_file(display_name)
         ELSE NoPath

\* DisplayConfigManager.load_display_config
load_display_config(f, display_name) ==
    LET config_file == get_display_config_file(f, display_name)
    IN  IF config_file = NoPath
        THEN [exc |-> "FileNotFoundError", content |-> NoText]
        ELSE [exc |-> "", content |-> ReadText(f[config_file])]

\* DisplayConfigManager.export_display_config
export_display_config(f, display_name) ==
    LET r == load_display_config(f, display_name)
    IN  [exc |-> r.exc, content |-> r.content,
         filename |-> IF r.exc = "" THEN yaml_name(display_name) ELSE NoName]

save_display_config_mutant(f, display_name, yaml_content) ==
    IF yaml_safe_load(yaml_content).error
    THEN [exc |-> "ValueError", why |-> "Invalid YAML", files |-> f]
    ELSE IF exists(f, default_file(display_name))
         THEN [exc |-> "", why |-> "", files |-> f]
         ELSE [exc |-> "", why |-> "",
               files |-> [f EXCEPT ![persistent_file(display_name)] =
                                       WriteText(yaml_content)]]

\* DisplayConfigManager.save_display_config: the text must parse as YAML; it
\* is then written to the persistent file, whatever the name is
save_display_config(f, display_name, yaml_content) ==
    IF yaml_safe_load(yaml_content).error
    THEN [exc |-> "ValueError", why |-> "Invalid YAML", files |-> f]
    ELSE [exc |-> "", why |-> "",
          files |-> [f EXCEPT ![persistent_file(display_name)] =
                                  WriteText(yaml_content)]]

reset_display_config_mutant(f, display_name) ==
    IF ~ exists(f, persistent_file(display_name))
    THEN [exc |-> "FileNotFoundError", why |-> "No custom configuration found",
          files |-> f]
    ELSE [exc |-> IF exists(f, default_file(display_name))
                  THEN "" ELSE "FileNotFoundError",
          why |-> IF exists(f, default_file(display_name))
                  THEN "" ELSE "Default configuration not found",
          files |-> [f EXCEPT ![persistent_file(display_name)] = NoFile]]

\* DisplayConfigManager.reset_display_config: both files must exist; the
\* persistent one is then unlinked
reset_display_config(f, display_name) ==
    IF ~ exists(f, persistent_file(display_name))
    THEN [exc |-> "FileNotFoundError", why |-> "No custom configuration found",
          files |-> f]
    ELSE IF ~ exists(f, default_file(display_name))
         THEN [exc |-> "FileNotFoundError",
               why |-> "Default configuration not found", files |-> f]
         ELSE [exc |-> "", why |-> "",
               files |-> [f EXCEPT ![persistent_file(display_name)] = NoFile]]

copy_source_mutant(f, source_name) ==
    IF exists(f, default_file(source_name))
    THEN WriteText(ReadText(f[default_file(source_name)]))
    ELSE WriteText(ReadText(f[get_display_config_file(f, source_name)]))

\* the copy made by duplicate_display_config: the resolved source file is read
\* in text mode and what was read is written in text mode
copy_source(f, source_name) ==
    WriteText(ReadText(f[get_display_config_file(f, source_name)]))

\* DisplayConfigManager.duplicate_display_config: the name test, then the
\* lookup of the source, then the test that no persistent file has the new
\* name, then the copy (read in text mode, written in text mode)
duplicate_display_config(f, source_name, new_name) ==
    IF ~ name_check(new_name)
    THEN [exc |-> "ValueError", why |-> "Display name must contain only",
          files |-> f]
    ELSE IF get_display_config_file(f, source_name) = NoPath
         THEN [exc |-> "FileNotFoundError", why |-> "Display config not found",
               files |-> f]
         ELSE IF exists(f, persistent_file(new_name))
              THEN [exc |-> "ValueError", why |-> "already exists", files |-> f]
              ELSE [exc |-> "", why |-> "",
                    files |-> [f EXCEPT ![persistent_file(new_name)] =
                                            copy_source(f, source_name)]]

delete_display_config_mutant(f, display_name) ==
    IF get_display_config_file(f, display_name) = NoPath
    THEN [exc |-> "FileNotFoundError", why |-> "Custom configuration not found",
          files |-> f]
    ELSE [exc |-> "", why |-> "",
          files |-> [f EXCEPT ![persistent_file(display_name)] = NoFile]]

\* DisplayConfigManager.delete_display_config: the persistent file must exist;
\* it is unlinked
delete_display_config(f, display_name) ==
    IF ~ exists(f, persistent_file(display_name))
    THEN [exc |-> "FileNotFoundError", why |-> "Custom configuration not found",
          files |-> f]
    ELSE [exc |-> "", why |-> "",
          files |-> [f EXCEPT ![persistent_file(display_name)] = NoFile]]

\* str.endswith(suffix)
endswith(s, suffix) ==
    /\ Len(s) >= Len(suffix)
    /\ SubSeq(s, Len(s) - Len(suffix) + 1, Len(s)) = suffix

\* filename[:-5]
strip_yaml(filename) == SubSeq(filename, 1, Len(filename) - 5)

import_display_config_mutant(f, filename, yaml_content, overwrite) ==
    IF ~ endswith(filename, Ext)
    THEN [exc |-> "ValueError", why |-> "Filename must end with .yaml",
          display_name |-> NoName, files |-> f]
    ELSE LET display_name == strip_yaml(filename)
         IN  IF ~ name_check(display_name)
             THEN [exc |-> "ValueError", why |-> "Display name must contain only",
                   display_name |-> display_name, files |-> f]
             ELSE IF exists(f, persistent_file(display_name)) /\ ~ overwrite
                  THEN [exc |-> "FileExistsError", why |-> "already exists",
                        display_name |-> display_name, files |-> f]
                  ELSE [exc |-> IF yaml_safe_load(yaml_content).error
                                THEN "ValueError" ELSE "",
                        why |-> IF yaml_safe_load(yaml_content).error
                                THEN "Invalid YAML" ELSE "",
                        display_name |-> display_name,
                        files |-> [f EXCEPT ![persistent_file(display_name)]
                                      = WriteText(yaml_content)]]

\* DisplayConfigManager.import_display_config: the filename test, the name
\* test, the test for an existing persistent file, the YAML test, the write
import_display_config(f, filename, yaml_content, overwrite) ==
    IF ~ endswith(filename, Ext)
    THEN [exc |-> "ValueError", why |-> "Filename must end with .yaml",
          display_name |-> NoName, files |-> f]
    ELSE LET display_name == strip_yaml(filename)
         IN  IF ~ name_check(display_name)
             THEN [exc |-> "ValueError", why |-> "Display name must contain only",
                   display_name |-> display_name, files |-> f]
             ELSE IF exists(f, persistent_file(display_name)) /\ ~ overwrite
                  THEN [exc |-> "FileExistsError", why |-> "already exists",
                        display_name |-> display_name, files |-> f]
                  ELSE IF yaml_safe_load(yaml_content).error
                       THEN [exc |-> "ValueError", why |-> "Invalid YAML",
                             display_name |-> display_name, files |-> f]
                       ELSE [exc |-> "", why |-> "",
                             display_name |-> display_name,
                             files |-> [f EXCEPT ![persistent_file(display_name)]
                                           = WriteText(yaml_content)]]

-----------------------------------------------------------------------------
(* list_displays *)

\* ord(ch) of the characters that occur in names
ord(ch) ==
    CASE ch = " " -> 32
      [] ch = "-" -> 45
      [] ch = "." -> 46
      [] ch = "1" -> 49
      [] ch = "_" -> 95
      [] ch = "a" -> 97
      [] ch = "b" -> 98
      [] ch = "g" -> 103
      [] ch = "j" -> 106
      [] ch = "l" -> 108
      [] ch = "m" -> 109
      [] ch = "p" -> 112
      [] ch = "y" -> 121
      [] ch = "U+00E9" -> 233

RECURSIVE str_lt(_, _)
\* s < t on Python strings: by code point, a proper prefix first
str_lt(s, t) ==
    IF t = <<>> THEN FALSE
    ELSE IF s = <<>> THEN TRUE
    ELSE IF ord(Head(s)) # ord(Head(t)) THEN ord(Head(s)) < ord(Head(t))
    ELSE str_lt(Tail(s), Tail(t))

\* the index of the last "." of s, 0 when there is none (str.rfind, from 1)
rfind_dot(s) ==
    IF \E i \in 1..Len(s) : s[i] = "."
    THEN CHOOSE i \in 1..Len(s) :
             /\ s[i] = "."
             /\ \A j \in (i + 1)..Len(s) : s[j] # "."
    ELSE 0

\* PurePath.stem: the file name without its last suffix; a name whose only
\* "." is the first character (".yaml") has no suffix
stem(file_name) ==
    LET i == rfind_dot(file_name)
    IN  IF 1 < i /\ i < Len(file_name)
        THEN SubSeq(file_name, 1, i - 1)
        ELSE file_name

\* dir.glob("*.yaml"): the file names of the directory (all end in ".yaml",
\* and pathlib's "*" matches a leading "." too)
glob_yaml(f, dir) ==
    {yaml_name(n) : n \in {m \in Names : exists(f, <<dir, m>>)}}

\* a list_displays that reads the persistent directory first, so that the
\* entry of the default directory stays
display_entry_mutant(f, name) ==
    IF \E cf \in glob_yaml(f, "default") : stem(cf) = name
    THEN [name |-> name, is_custom |-> FALSE, modified_at |-> "None"]
    ELSE [name |-> name, is_custom |-> TRUE, modified_at |-> "st_mtime"]

\* the record list_displays builds for one stem: the persistent directory is
\* read second and overwrites the entry of the default directory
display_entry(f, name) ==
    IF \E cf \in glob_yaml(f, "persistent") : stem(cf) = name
    THEN [name |-> name, is_custom |-> TRUE, modified_at |-> "st_mtime"]
    ELSE [name |-> name, is_custom |-> FALSE, modified_at |-> "None"]

RECURSIVE sorted_by_name(_)
\* sorted(..., key=lambda x: x["name"]) of a set of records with distinct names
sorted_by_name(S) ==
    IF S = {} THEN <<>>
    ELSE LET first == CHOOSE x \in S :
                          \A y \in S \ {x} : str_lt(x.name, y.name)
         IN  <<first>> \o sorted_by_name(S \ {first})

\* DisplayConfigManager.list_displays
list_displays(f) ==
    sorted_by_name({display_entry(f, stem(cf)) :
                    cf \in glob_yaml(f, "default") \cup glob_yaml(f, "persistent")})

\* the record list() reports for a name, as a set (empty when it reports none)
Reported(f, name) ==
    {list_displays(f)[i] : i \in {j \in 1..Len(list_displays(f)) :
                                      list_displays(f)[j].name = name}}

-----------------------------------------------------------------------------
(* State: the files of the two directories and the last call with its result *)

Filenames == {yaml_name(n) : n \in Names} \cup {<<"a", ".", "y", "m", "l">>}

NoLoad == [exc |-> "", content |-> NoText]

NoPrev ==
    [op |-> "none", display_name |-> NoName, source_name |-> NoName,
     before |-> NoLoad, was_custom |-> FALSE]

\* the record of a call: its arguments, its outcome (exc is "" when it
\* returned, else the exception raised, why the start of its message), and
\* what the call found: before is what load returned just before the call
\* (of source_name for duplicate, else of display_name), was_custom whether
\* the persistent file of display_name existed just before the call, prev
\* the call before it when that call is one this call undoes or follows up
NoCall ==
    [op |-> "init", display_name |-> NoName, source_name |-> NoName,
     filename |-> NoName, yaml_content |-> NoText, overwrite |-> FALSE,
     exc |-> "", why |-> "", content |-> NoText, displays |-> <<>>,
     before |-> NoLoad, was_custom |-> FALSE, prev |-> NoPrev]

\* the call before a call op(name), when it returned and is
\* a save of the name that is now reset, or
\* a duplicate of the name that is now saved, reset or deleted
PrevOf(op, name) ==
    IF \/ /\ last.op = "save" /\ last.exc = ""
          /\ op = "reset" /\ last.display_name = name
       \/ /\ last.op = "duplicate" /\ last.exc = ""
          /\ op \in {"save", "reset", "delete"} /\ last.source_name = name
    THEN [op |-> last.op, display_name |-> last.display_name,
          source_name |-> last.source_name,
          before |-> last.before, was_custom |-> last.was_custom]
    ELSE NoPrev

\* the default directory ships profile "a"; the persistent directory is
\* created empty
Init ==
    /\ files = [p \in Paths |->
                  IF p = default_file(NameA) THEN CfgDefault ELSE NoFile]
    /\ last = NoCall
    /\ gallery = Unused
    /\ img = Unused
    /\ tasks = Unused

\* the model keeps at most MaxOverrides persistent files
Fits(f) == Cardinality(Overrides(f)) <= MaxOverrides

\* Each action is one call of a DisplayConfigManager method on the files as
\* they are: r is what the method returns or raises and the files it leaves.

ListDisplays ==
    /\ last' = [NoCall EXCEPT !.op = "list", !.displays = list_displays(files)]
    /\ UNCHANGED <<files, outside_store>>

LoadDisplayConfig(name) ==
    \E r \in {load_display_config(files, name)} :
        /\ last' = [NoCall EXCEPT !.op = "load", !.display_name = name,
                                  !.exc = r.exc, !.content = r.content]
        /\ UNCHANGED <<files, outside_store>>

ExportDisplayConfig(name) ==
    \E r \in {export_display_config(files, name)} :
        /\ last' = [NoCall EXCEPT !.op = "export", !.display_name = name,
                                  !.exc = r.exc, !.content = r.content,
                                  !.filename = r.filename]
        /\ UNCHANGED <<files, outside_store>>

SaveDisplayConfig(name, text) ==
    \E r \in {save_display_config(files, name, text)} :
        /\ UNCHANGED outside_store
        /\ Fits(r.files)
        /\ files' = r.files
        /\ last' = [NoCall EXCEPT !.op = "save", !.display_name = name,
                                  !.yaml_content = text,
                                  !.exc = r.exc, !.why = r.why,
                                  !.before = load_display_config(files, name),
                                  !.was_custom =
                                      exists(files, persistent_file(name)),
                                  !.prev = PrevOf("save", name)]

ResetDisplayConfig(name) ==
    \E r \in {reset_display_config(files, name)} :
        /\ UNCHANGED outside_store
        /\ files' = r.files
        /\ last' = [NoCall EXCEPT !.op = "reset", !.display_name = name,
                                  !.exc = r.exc, !.why = r.why,
                                  !.before = load_display_config(files, name),
                                  !.was_custom =
                                      exists(files, persistent_file(name)),
                                  !.prev = PrevOf("reset", name)]

DuplicateDisplayConfig(source, new_name) ==
    \E r \in {duplicate_display_config(files, source, new_name)} :
        /\ UNCHANGED outside_store
        /\ Fits(r.files)
        /\ files' = r.files
        /\ last' = [NoCall EXCEPT !.op = "duplicate", !.display_name = new_name,
                                  !.source_name = source,
                                  !.exc = r.exc, !.why = r.why,
                                  !.before = load_display_config(files, source),
                                  !.was_custom =
                                      exists(files, persistent_file(new_name))]

DeleteDisplayConfig(name) ==
    \E r \in {delete_display_config(files, name)} :
        /\ UNCHANGED outside_store
        /\ files' = r.files
        /\ last' = [NoCall EXCEPT !.op = "delete", !.display_name = name,
                                  !.exc = r.exc, !.why = r.why,
                                  !.before = load_display_config(files, name),
                                  !.was_custom =
                                      exists(files, persistent_file(name)),
                                  !.prev = PrevOf("delete", name)]

ImportDisplayConfig(filename, text, overwrite) ==
    \E r \in {import_display_config(files, filename, text, overwrite)} :
        /\ UNCHANGED outside_store
        /\ Fits(r.files)
        /\ files' = r.files
        /\ last' = [NoCall EXCEPT !.op = "import",
                                  !.display_name = r.display_name,
                                  !.filename = filename, !.yaml_content = text,
                                  !.overwrite = overwrite,
                                  !.exc = r.exc, !.why = r.why,
                                  !.before =
                                      IF r.display_name \in Names
                                      THEN load_display_config(files,
                                                               r.display_name)
                                      ELSE NoLoad,
                                  !.was_custom =
                                      /\ r.display_name \in Names
                                      /\ exists(files,
                                                persistent_file(r.display_name))]

Next ==
    \/ ListDisplays
    \/ \E name \in Names : LoadDisplayConfig(name)
    \/ \E name \in Names : ExportDisplayConfig(name)
    \/ \E name \in Names, text \in Texts : SaveDisplayConfig(name, text)
    \/ \E name \in Names : ResetDisplayConfig(name)
    \/ \E source \in Names, new_name \in Names :
           DuplicateDisplayConfig(source, new_name)
    \/ \E name \in Names : DeleteDisplayConfig(name)
    \/ \E filename \in Filenames, text \in Texts, overwrite \in BOOLEAN :
           ImportDisplayConfig(filename, text, overwrite)

Spec == Init /\ [][Next]_vars

-----------------------------------------------------------------------------
(* The image gallery: GalleryManager (app.py) and MetadataDatabase          *)
(* (metadata_db.py).  The gallery is the set of files of the images         *)
(* directory (dir), the file names that have a row in the images table      *)
(* (images), the names that have a row in the tags table (tags) and the     *)
(* rows of the image_tags table joined with the tags table (image_tags,     *)
(* pairs of a file name and a tag name).                                    *)

ImgA == <<"a", ".", "j", "p", "g">>
ImgAB == <<"a", "b", ".", "j", "p", "g">>
ImgB == <<"b", ".", "j", "p", "g">>

ImageFiles == {ImgA, ImgAB, ImgB}

\* a file name that upload refuses
NotAnImage == <<"a", ".", "y", "m", "l">>

TagLatest == <<"l", "a", "t", "e", "s", "t">>
TagSun == <<"S", "u", "n">>

\* a query parameter that the request does not carry (query.get gives None)
NoParam == <<"<None>">>

\* bool(s) of a query parameter: None and "" are false
truthy(s) == s # NoParam /\ s # <<>>

\* str.lower() of one character
lower_ch(ch) ==
    CASE ch = "S" -> "s"
      [] ch = "U" -> "u"
      [] ch = "N" -> "n"
      [] OTHER -> ch

\* str.lower()
lower(s) == [i \in 1..Len(s) |-> lower_ch(s[i])]

\* PurePath.suffix: the last "." of the file name and what follows it
suffix(file_name) ==
    LET i == rfind_dot(file_name)
    IN  IF 1 < i /\ i < Len(file_name)
        THEN SubSeq(file_name, i, Len(file_name))
        ELSE <<>>

valid_extensions ==
    {<<".", "j", "p", "g">>, <<".", "j", "p", "e", "g">>, <<".", "p", "n", "g">>,
     <<".", "g", "i", "f">>, <<".", "b", "m", "p">>, <<".", "w", "e", "b", "p">>}

\* GalleryManager._is_image
is_image(file_path) == lower(suffix(file_path)) \in valid_extensions

RECURSIVE sorted(_)
\* sorted(...) of a set of strings
sorted(S) ==
    IF S = {} THEN <<>>
    ELSE LET first == CHOOSE x \in S : \A y \in S \ {x} : str_lt(x, y)
         IN  <<first>> \o sorted(S \ {first})

\* the gallery after construction: the images directory is created empty and
\* the tables are created empty
EmptyGallery == [dir |-> {}, images |-> {}, tags |-> {}, image_tags |-> {}]

\* the "tags" of MetadataDatabase.get_image_metadata: the names of the tag
\* rows joined to the file name (each row is a dict with the key "name")
get_image_metadata_tags(g, filename) ==
    {it[2] : it \in {jt \in g.image_tags : jt[1] = filename}}

\* the files that GalleryManager.get_images lists: the image files of the
\* directory that are not hidden
listed(g) == {fp \in g.dir : Head(fp) # "." /\ is_image(fp)}

\* GalleryManager.get_images: the listed files in sorted order, each with
\* its tags; a file without a row in the images table (get_image_metadata
\* returns None) is listed with no tags
get_images(g) ==
    LET listing == sorted(listed(g))
    IN  [i \in 1..Len(listing) |->
            [filename |-> listing[i],
             tags |-> IF listing[i] \in g.images
                      THEN get_image_metadata_tags(g, listing[i])
                      ELSE {}]]

\* the tables after GalleryManager.get_images: it adds the row of every
\* listed file that has none (metadata_db.add_image)
after_get_images(g) == [g EXCEPT !.images = g.images \cup listed(g)]

\* GalleryManager.find_image_by_basename: the file whose stem is basename,
\* NoName for None (the stems of ImageFiles are distinct)
find_image_by_basename(g, basename) ==
    IF \E fp \in g.dir : is_image(fp) /\ stem(fp) = basename
    THEN CHOOSE fp \in g.dir : is_image(fp) /\ stem(fp) = basename
    ELSE NoName

\* filename = gallery.find_image_by_basename(basename); if not filename:
\* filename = basename
filename_of(g, basename) ==
    IF find_image_by_basename(g, basename) # NoName
    THEN find_image_by_basename(g, basename)
    ELSE basename

\* MetadataDatabase.add_tag: the tag gets a row in tags if it has none, and
\* the pair a row in image_tags
add_tag(g, filename, tag_name) ==
    [g EXCEPT !.tags = g.tags \cup {tag_name},
              !.image_tags = g.image_tags \cup {<<filename, tag_name>>}]

\* MetadataDatabase.remove_tag_from_all_images: without a row of the tag in
\* tags it returns False and deletes nothing
remove_tag_from_all_images(g, tag_name) ==
    [g EXCEPT !.image_tags = {it \in g.image_tags : it[2] # tag_name}]

\* MetadataDatabase.remove_tag: False (ok) without a row of the tag in tags
remove_tag(g, filename, tag_name) ==
    IF tag_name \notin g.tags
    THEN [ok |-> FALSE, gallery |-> g]
    ELSE [ok |-> TRUE,
          gallery |-> [g EXCEPT !.image_tags =
                                    g.image_tags \ {<<filename, tag_name>>}]]

\* aiofiles.open(file_path, "wb") in GalleryManager.upload_image: the file
\* is created in the images directory
upload_image_open(g, filename) == [g EXCEPT !.dir = g.dir \cup {filename}]

\* GalleryManager.upload_image after the file is written: the row of the
\* image is added, the tag "latest" is taken from every image and given to
\* this one
upload_image_rows(g, filename) ==
    add_tag(remove_tag_from_all_images(
                [g EXCEPT !.images = g.images \cup {filename}], TagLatest),
            filename, TagLatest)

\* GalleryManager.delete_image: unlinks the file and deletes its row of the
\* images table; the connection does not enable foreign keys, so the rows
\* of image_tags stay
delete_image(g, filename) ==
    IF filename \notin g.dir
    THEN [exc |-> "FileNotFoundError", gallery |-> g]
    ELSE [exc |-> "",
          gallery |-> [g EXCEPT !.dir = g.dir \ {filename},
                                !.images = g.images \ {filename}]]

\* file_path.exists() in GalleryManager.get_image for a file name without
\* directories
get_image(g, filename) == filename \in g.dir

-----------------------------------------------------------------------------
(* Selection: the tag filter and the index of the e-ink endpoints           *)
(* (eink_endpoints.py)                                                      *)

\* the index of the first sep of s, 0 when there is none
find(s, sep) ==
    IF \E i \in 1..Len(s) : s[i] = sep
    THEN CHOOSE i \in 1..Len(s) :
             /\ s[i] = sep
             /\ \A j \in 1..(i - 1) : s[j] # sep
    ELSE 0

RECURSIVE split(_, _)
\* str.split(sep)
split(s, sep) ==
    IF find(s, sep) = 0 THEN <<s>>
    ELSE <<SubSeq(s, 1, find(s, sep) - 1)>>
             \o split(SubSeq(s, find(s, sep) + 1, Len(s)), sep)

RECURSIVE lstrip(_)
lstrip(s) == IF s # <<>> /\ Head(s) = " " THEN lstrip(Tail(s)) ELSE s

RECURSIVE rstrip(_)
rstrip(s) ==
    IF s # <<>> /\ s[Len(s)] = " " THEN rstrip(SubSeq(s, 1, Len(s) - 1)) ELSE s

\* str.strip()
strip(s) == rstrip(lstrip(s))

\* [tag.strip().lower() for tag in tags_param.split(',') if tag.strip()]
requested_tags(tags_param) ==
    LET kept == SelectSeq(split(tags_param, ","), LAMBDA tag : strip(tag) # <<>>)
    IN  [i \in 1..Len(kept) |-> lower(strip(kept[i]))]

\* img_tags of one image: the lower-cased names of its tags
img_tags(image) == {lower(tag) : tag \in image.tags}

\* any(tag in img_tags for tag in requested_tags)
has_requested_tag_mutant(image, requested) ==
    \A i \in 1..Len(requested) : requested[i] \in img_tags(image)

has_requested_tag(image, requested) ==
    \E i \in 1..Len(requested) : requested[i] \in img_tags(image)

\* _filter_images_by_tags, and the same loop written out in
\* api_get_random_eink_image
filter_images_by_tags(images, tags_param) ==
    IF ~ truthy(tags_param) THEN images
    ELSE SelectSeq(images,
                   LAMBDA image :
                       has_requested_tag(image, requested_tags(tags_param)))

Digits == <<"0", "1", "2", "3", "4", "5", "6", "7", "8", "9">>

\* the value of a decimal digit
digit(ch) == (CHOOSE i \in 1..Len(Digits) : Digits[i] = ch) - 1

RECURSIVE digits_value(_)
\* the value of a non-empty sequence of decimal digits
digits_value(s) ==
    IF Len(s) = 1 THEN digit(s[1])
    ELSE 10 * digits_value(SubSeq(s, 1, Len(s) - 1)) + digit(s[Len(s)])

\* int(s) of a string: blanks around it are dropped, then an optional sign
\* and decimal digits; anything else is a ValueError
int(s) ==
    LET t == strip(s)
        signed == t # <<>> /\ Head(t) \in {"+", "-"}
        body == IF signed THEN Tail(t) ELSE t
        ok == /\ body # <<>>
              /\ \A i \in 1..Len(body) :
                     \E k \in 1..Len(Digits) : Digits[k] = body[i]
    IN  IF ~ ok THEN [exc |-> "ValueError", value |-> 0]
        ELSE [exc |-> "",
              value |-> IF signed /\ Head(t) = "-"
                        THEN 0 - digits_value(body)
                        ELSE digits_value(body)]

\* a % b of Python for b > 0: the result has the sign of b
py_mod(a, b) == a % b

\* next_index = (current_index + 1) % len(images_to_choose_from)
next_index(current_index, n) == py_mod(current_index + 1, n)

choice_mutant(seq) == {seq[1]}

\* random.choice(seq) of a non-empty sequence: any of its elements
choice(seq) == {seq[i] : i \in 1..Len(seq)}

-----------------------------------------------------------------------------
(* Rendering: the profile loader of display_config.py and the call of       *)
(* process_image (eink_endpoints.py)                                        *)

module_config_file_mutant(f, display_type) ==
    IF exists(f, default_file(display_type))
    THEN default_file(display_type)
    ELSE persistent_file(display_type)

\* the file that display_config.load_display_config opens: the persistent
\* file when it exists, else the default file (which may not exist)
module_config_file(f, display_type) ==
    IF exists(f, persistent_file(display_type))
    THEN persistent_file(display_type)
    ELSE default_file(display_type)

\* display_config.load_display_config: the persistent file when it exists,
\* else the default file; FileNotFoundError when that does not exist,
\* ValueError when the text is not YAML or DisplayConfig refuses the mapping
module_load_display_config(f, display_type) ==
    LET config_file == module_config_file(f, display_type)
        config_data == yaml_safe_load(ReadText(f[config_file]))
    IN  IF ~ exists(f, config_file)
        THEN [exc |-> "FileNotFoundError", why |-> "Display configuration not found",
              config |-> <<>>]
        ELSE IF config_data.error
        THEN [exc |-> "ValueError", why |-> "Invalid YAML", config |-> <<>>]
        ELSE IF ~ DisplayConfigInit(config_data)
        THEN [exc |-> "ValueError", why |-> "Invalid config", config |-> <<>>]
        ELSE [exc |-> "", why |-> "", config |-> config_data]

\* display_config.list_available_displays: the stems of both directories
list_available_displays(f) ==
    sorted({stem(cf) : cf \in glob_yaml(f, "default") \cup glob_yaml(f, "persistent")})

\* the parameters of def process_image(...)
process_image_parameters ==
    {"input_path", "dither", "resize", "crop", "width", "height",
     "palette_image", "gamma"}

\* the keywords of the call process_image(input_path=, output_path=, dither=,
\* resize=, crop=, **params), params being to_process_image_params()
process_image_keywords ==
    {"input_path", "output_path", "dither", "resize", "crop"}
        \cup {"width", "height", "palette_image", "gamma"}

\* a path with directories is a sequence that starts with the tokens "../"
\* (the parent directory) and "images/" (the directory of that name)
MetadataDb == <<"metadata.db">>

\* "../metadata.db": from IMAGES_DIR this is METADATA_DB_FILE
UpMetadataDb == <<"../">> \o MetadataDb

\* "../images/a.jpg"
UpImagesA == <<"../", "images/">> \o ImgA

\* Path.parent of the directories of the model: IMAGES_DIR is in DATA_DIR,
\* a temporary directory is in the directory of temporary files
parent(dir) ==
    IF dir = "images" THEN "data" ELSE IF dir = "temp_dir" THEN "tmp" ELSE "none"

\* the directory images of dir: only DATA_DIR has one
child_images(dir) == IF dir = "data" THEN "images" ELSE "none"

RECURSIVE join(_, _)
\* dir / filename, as the operating system resolves it: the directory and
\* the file name in it
join(dir, filename) ==
    IF filename # <<>> /\ Head(filename) = "../"
    THEN join(parent(dir), Tail(filename))
    ELSE IF filename # <<>> /\ Head(filename) = "images/"
    THEN join(child_images(dir), Tail(filename))
    ELSE <<dir, filename>>

\* file_path.exists() in GalleryManager.get_image, for file names with
\* directories too
file_path_exists(g, filename) ==
    LET file_path == join("images", filename)
    IN  IF file_path[1] = "images" THEN get_image(g, file_path[2])
        ELSE file_path[1] = "data" /\ file_path[2] = MetadataDb

-----------------------------------------------------------------------------
(* The e-ink endpoints (eink_endpoints.py)                                  *)

NoIndex == -1

RECURSIVE str(_)
\* str(n) of an integer n >= 0
str(n) ==
    IF n < 10 THEN <<Digits[n + 1]>>
    ELSE str(n \div 10) \o <<Digits[(n % 10) + 1]>>

images_to_choose_from_mutant(g, tags_param) ==
    IF get_images(g) = <<>>
    THEN [status |-> 404, message |-> "No images available in gallery",
          images |-> <<>>]
    ELSE [status |-> 0, message |-> "",
          images |-> filter_images_by_tags(get_images(g), tags_param)]

\* the start of the Random and of the Next endpoint: all_images, the tag
\* filter, and the 404 of an empty list (status 0 when the request goes on)
images_to_choose_from(g, tags_param) ==
    IF get_images(g) = <<>>
    THEN [status |-> 404, message |-> "No images available in gallery",
          images |-> <<>>]
    ELSE IF /\ truthy(tags_param)
            /\ filter_images_by_tags(get_images(g), tags_param) = <<>>
    THEN [status |-> 404, message |-> "No images found with tags",
          images |-> <<>>]
    ELSE [status |-> 0, message |-> "",
          images |-> filter_images_by_tags(get_images(g), tags_param)]

\* the profiles of the e-ink specification: the default profile "a", and a
\* persistent profile "b" that lacks the resolution
EinkFiles ==
    [p \in Paths |->
        IF p = default_file(NameA) THEN CfgDefault
        ELSE IF p = persistent_file(NameB) THEN CfgNoRes ELSE NoFile]

\* the display parameter of a request: none, a profile that builds, one
\* that does not, one that does not exist
DisplayParams == {NoParam, NameA, NameB, NameUnderscore}

\* the filename of the path of a request: a stem, a file name, neither
Basenames == {NameA, ImgAB, NameUnderscore}

\* the tags parameter of a request: none, " SUN ,latest", "x,"
TagParams ==
    {NoParam,
     <<" ", "S", "U", "N", " ", ",", "l", "a", "t", "e", "s", "t">>,
     <<"x", ",">>}

\* the current_index parameter of a request
IndexParams ==
    {NoParam, <<"x">>, <<"-", "2">>, <<"2">>, <<"5">>}

-----------------------------------------------------------------------------
(* The image transformer: process_image (image_utils.py) on the parameters  *)
(* of a profile.  A source image is its size and the one colour of all its  *)
(* pixels.  An output image is the size of its canvas, the box of the       *)
(* scaled content on it (left, top, width, height) and the set of colours   *)
(* of its pixels.                                                           *)

\* DisplayConfig.get_resolution
get_resolution(config) == <<config.resolution.width, config.resolution.height>>

\* DisplayConfig.to_process_image_params (palette_image is the palette of
\* the "P" image)
to_process_image_params(config) ==
    [width |-> get_resolution(config)[1],
     height |-> get_resolution(config)[2],
     palette_image |-> get_palette_image(config).palette,
     gamma |-> config.gamma]

\* |a - b|
abs_diff(a, b) == IF a >= b THEN a - b ELSE b - a

\* math.ceil(p / q) for p >= 0, q > 0
ceil_div(p, q) == (p + q - 1) \div q

\* the size Image.thumbnail(size) gives an image of size <<w, h>>: the image
\* is never enlarged; else the side that the aspect ratio w / h makes
\* smaller is round_aspect(number, key), the one of floor(number) and
\* ceil(number) with the smaller key (floor when equal), at least 1
thumbnail(source_size, size) ==
    LET w == source_size[1]
        h == source_size[2]
        x == size[1]
        y == size[2]
        \* x / y >= aspect: number = y * w / h, key(n) = |w / h - n / y|
        fx == (y * w) \div h
        cx == ceil_div(y * w, h)
        new_x == IF abs_diff(w * y, fx * h) <= abs_diff(w * y, cx * h)
                 THEN fx ELSE cx
        \* else: number = x * h / w, key(n) = 0 if n == 0 else |w / h - x / n|
        fy == (x * h) \div w
        cy == ceil_div(x * h, w)
        new_y == IF fy = 0 THEN fy
                 ELSE IF abs_diff(w * fy, x * h) * cy
                             <= abs_diff(w * cy, x * h) * fy
                 THEN fy ELSE cy
    IN  IF x >= w /\ y >= h THEN source_size
        ELSE IF x * h >= y * w
        THEN <<IF new_x < 1 THEN 1 ELSE new_x, y>>
        ELSE <<x, IF new_y < 1 THEN 1 ELSE new_y>>

\* the resizing logic of process_image: the box of the content on the
\* canvas.  ImageOps.fit fills the target; the letterbox pastes the
\* thumbnail at ((width - w) // 2, (height - h) // 2)
resize_box(source_size, resize, crop, width, height) ==
    IF ~ resize THEN <<0, 0, source_size[1], source_size[2]>>
    ELSE IF crop THEN <<0, 0, width, height>>
    ELSE <<(width - thumbnail(source_size, <<width, height>>)[1]) \div 2,
           (height - thumbnail(source_size, <<width, height>>)[2]) \div 2,
           thumbnail(source_size, <<width, height>>)[1],
           thumbnail(source_size, <<width, height>>)[2]>>

\* the size of the canvas after the resizing logic
resize_size(source_size, resize, width, height) ==
    IF resize THEN <<width, height>> ELSE source_size

\* (v / 255) ** (1 / 2.2) * 255 as uint8, for the channel values of the model
gamma_2_2(v) ==
    CASE v = 0 -> 0
      [] v = 128 -> 186
      [] v = 255 -> 255

\* apply_gamma_correction on one colour
apply_gamma_correction(colour, gamma) ==
    IF gamma = "1.0" THEN colour
    ELSE <<gamma_2_2(colour[1]), gamma_2_2(colour[2]), gamma_2_2(colour[3])>>

\* the squared distance of two colours
distance(c, d) ==
    (c[1] - d[1]) * (c[1] - d[1]) + (c[2] - d[2]) * (c[2] - d[2])
        + (c[3] - d[3]) * (c[3] - d[3])

\* the colours of the slots of a palette image
palette_colours(palette_image) ==
    {palette_image[i] : i \in DOMAIN palette_image}

\* the colours nearest to a colour among the colours of the slots of the
\* palette image: what Image.quantize maps a pixel of that colour to when
\* no error was diffused into it (more than one colour when two are
\* equally near).  All 256 slots of the palette image take part.
nearest(colour, slot_colours) ==
    {c \in slot_colours :
         \A d \in slot_colours : distance(colour, c) <= distance(colour, d)}

\* the sets of colours an output of quantize can have, slot_colours being
\* the colours of the slots of the palette image.  Without dithering, and
\* with dithering when every pixel has the colour of a slot (no error to
\* diffuse), each pixel gets a nearest colour.  Floyd-Steinberg dithering of
\* other images gives the first pixel a nearest colour and the later pixels
\* the colours nearest to their value plus the diffused error: any colours
\* of the slots.
quantized(pixels, first, slot_colours, dither) ==
    IF ~ dither \/ pixels \subseteq slot_colours
    THEN {S \in SUBSET (UNION {nearest(c, slot_colours) : c \in pixels}) :
              \A c \in pixels : S \cap nearest(c, slot_colours) # {}}
    ELSE {S \in SUBSET slot_colours : S \cap nearest(first, slot_colours) # {}}

\* source.quantize(palette=palette_image, dither=dither_mode) on an image
\* whose pixels have the colours pixels, the first of them the colour first
quantize(pixels, first, palette_image, dither) ==
    UNION {quantized(pixels, first, slot_colours, dither) :
               slot_colours \in {palette_colours(palette_image)}}

\* what process_image returns or raises
NoOut == [exc |-> "<not called>", size |-> <<0, 0>>, box |-> <<0, 0, 0, 0>>,
          colours |-> {}]

\* process_image(input_path, dither, resize, crop, width, height,
\* palette_image, gamma) on a decodable source: the outputs it can return
process_image(source, dither, resize, crop, width, height, palette_image, gamma) ==
    LET box == resize_box(source.size, resize, crop, width, height)
        size == resize_size(source.size, resize, width, height)
        content == apply_gamma_correction(source.colour, gamma)
        border == apply_gamma_correction(Black, gamma)
        bordered == box[3] < size[1] \/ box[4] < size[2]
        pixels == IF bordered THEN {content, border} ELSE {content}
        first == IF box[1] > 0 \/ box[2] > 0 THEN border ELSE content
    IN  IF palette_image = <<>>
        THEN {[NoOut EXCEPT !.exc = "ValueError"]}
        ELSE {[exc |-> "", size |-> size, box |-> box, colours |-> S] :
                  S \in quantize(pixels, first, palette_image, dither)}

\* a profile file turned into a DisplayConfig, its to_process_image_params()
\* passed to process_image with a source: DisplayConfig and
\* get_palette_image raise ValueError as in the render path
profile_process_image(text, source, dither, resize, crop) ==
    IF \/ yaml_safe_load(ReadText(text)).error
       \/ ~ DisplayConfigInit(yaml_safe_load(ReadText(text)))
       \/ invalid_color_format(yaml_safe_load(ReadText(text)))
    THEN {[NoOut EXCEPT !.exc = "ValueError"]}
    ELSE UNION {process_image(source, dither, resize, crop, params.width,
                              params.height, params.palette_image,
                              params.gamma) :
                    params \in {to_process_image_params(
                                    yaml_safe_load(ReadText(text)))}}

\* the profile files of the transformer's specification
ImageProfiles ==
    {CfgDefault, CfgSmall, CfgNoBlack, CfgEmptyPal, CfgShortColour, CfgNoRes}

\* the sizes of the source images: smaller than the panel, of its size,
\* larger in one or both directions, of another aspect ratio
SourceSizes ==
    {<<1, 1>>, <<2, 3>>, <<4, 3>>, <<5, 3>>, <<9, 1>>, <<7, 7>>, <<8, 6>>,
     <<100, 100>>, <<800, 480>>, <<801, 480>>, <<1600, 1200>>, <<479, 800>>}

\* the colours of the source images
SourceColours == {Black, White, Red, Grey}

\* a call of the transformer that has not run yet
Jobs ==
    [text : ImageProfiles,
     source : [size : SourceSizes, colour : SourceColours],
     dither : BOOLEAN, resize : BOOLEAN, crop : BOOLEAN,
     out : {NoOut}]

ImageInit ==
    /\ files = EinkFiles
    /\ last = NoCall
    /\ gallery = Unused
    /\ tasks = Unused
    /\ img \in Jobs

\* the call runs
ProcessImage ==
    /\ img.out = NoOut
    /\ \E out \in profile_process_image(img.text, img.source, img.dither,
                                        img.resize, img.crop) :
           img' = [img EXCEPT !.out = out]
    /\ UNCHANGED <<files, last, gallery, tasks>>

ImageNext == ProcessImage

SpecImage == ImageInit /\ [][ImageNext]_vars

-----------------------------------------------------------------------------
(* Requests in flight on the event loop                                    *)
(*                                                                         *)
(* The service runs every handler as a coroutine of one asyncio event      *)
(* loop (main, web.TCPSite); the profile store reads and writes its files  *)
(* with plain open, read and write, which do not suspend a handler.  A     *)
(* handler runs without interruption from one await to the next, and       *)
(* another handler can run only while it is suspended at an await.  A      *)
(* request is a record that holds the handler's arguments and its          *)
(* position pc, the name of the step it executes next.                     *)

\* the number of requests in flight
MaxRequests == 2

Requests == 1..MaxRequests

\* the handlers that read a profile, and those that write one
Readers == {"api_get_display_config", "api_get_eink_image"}
Writers == {"api_save_display_config", "api_duplicate_display_config",
            "api_import_display_config"}

\* the steps at which a handler is suspended: data = await request.json(),
\* reader = await request.multipart(), async for field in reader (an await
\* of the next field before every turn of the loop and at its end), await
\* field.read()
awaits_mutant == {"json", "multipart", "reader_next", "field_read", "write"}

awaits == {"json", "multipart", "reader_next", "field_read"}

\* a request that the server has accepted and whose handler has not run yet;
\* text is the body of a save or an import, source_name the display of the
\* URL of a duplicate, filename the file name of an import; the other fields
\* are local variables of the handler (path, buffer), its outcome (exc, seen)
\* and, for a reader, the writers of the same name that were in flight when
\* it read; unread is the number of fields of a multipart body that the
\* handler has not read (an import carries the field "file")
arrival(op, name, source_name, filename, text, overwrite) ==
    [op |-> op, name |-> name, source_name |-> source_name,
     filename |-> filename, text |-> text, overwrite |-> overwrite,
     unread |-> IF op = "api_import_display_config" THEN 1 ELSE 0,
     pc |-> "start", exc |-> "", path |-> NoPath, buffer |-> NoText,
     seen |-> NoText, concurrent |-> {}]

\* the handler ends: it returns a response, or an exception is turned into one
ends(t, exc) == [t EXCEPT !.pc = "done", !.exc = exc]

\* the first step of each handler after display_name is taken from the URL
first_step(op) ==
    IF op \in Readers THEN "resolve"
    ELSE IF op = "api_import_display_config" THEN "multipart" ELSE "json"

\* the tests that a writer makes after its awaits and before it opens the
\* file: the name of the exception they raise, "" when they pass
checks(f, t) ==
    IF t.op = "api_save_display_config"
    THEN save_display_config(f, t.name, t.text).exc
    ELSE IF t.op = "api_duplicate_display_config"
    THEN duplicate_display_config(f, t.source_name, t.name).exc
    ELSE import_display_config(f, t.filename, t.text, t.overwrite).exc

\* one step of a handler on the files f: the files and the request after it
step(f, t) ==
    IF t.pc = "start"
    THEN [files |-> f, task |-> [t EXCEPT !.pc = first_step(t.op)]]
    ELSE IF t.pc = "json"
    \* data = await request.json(); a missing field ends the handler with 400
    THEN [files |-> f,
          task |-> IF ~ truthy(IF t.op = "api_save_display_config"
                               THEN t.text ELSE t.name)
                   THEN ends(t, "Missing field")
                   ELSE [t EXCEPT !.pc = "check"]]
    ELSE IF t.pc = "multipart"
    \* reader = await request.multipart()
    THEN [files |-> f, task |-> [t EXCEPT !.pc = "reader_next"]]
    ELSE IF t.pc = "reader_next"
    \* async for field in reader: the next field, or the end of the loop and
    \* the test "if not filename or not content"
    THEN [files |-> f,
          task |-> IF t.unread > 0
                   THEN [t EXCEPT !.pc = "field_read", !.unread = @ - 1]
                   ELSE IF ~ truthy(t.filename) \/ ~ truthy(t.text)
                   THEN ends(t, "Missing field")
                   ELSE [t EXCEPT !.pc = "check"]]
    ELSE IF t.pc = "field_read"
    \* content = (await field.read()).decode("utf-8")
    THEN [files |-> f, task |-> [t EXCEPT !.pc = "reader_next"]]
    ELSE IF t.pc = "check"
    THEN [files |-> f,
          task |-> IF checks(f, t) # ""
                   THEN ends(t, checks(f, t))
                   ELSE IF t.op = "api_duplicate_display_config"
                   THEN [t EXCEPT !.pc = "read_source",
                                  !.path = get_display_config_file(f, t.source_name)]
                   ELSE IF t.op = "api_import_display_config"
                   THEN [t EXCEPT !.pc = "open", !.name = strip_yaml(t.filename)]
                   ELSE [t EXCEPT !.pc = "open"]]
    ELSE IF t.pc = "read_source"
    \* with open(source_file, "r") as f: content = f.read()
    THEN [files |-> f,
          task |-> [t EXCEPT !.pc = "open", !.text = ReadText(f[t.path])]]
    ELSE IF t.pc = "open"
    \* open(config_file, "w") creates the file or truncates it
    THEN [files |-> [f EXCEPT ![persistent_file(t.name)] = <<>>],
          task |-> [t EXCEPT !.pc = "write", !.path = persistent_file(t.name)]]
    ELSE IF t.pc = "write"
    \* f.write(yaml_content) fills the buffer of the file object
    THEN [files |-> f,
          task |-> [t EXCEPT !.pc = "close", !.buffer = WriteText(t.text)]]
    ELSE IF t.pc = "close"
    \* the end of the with block flushes the buffer and closes the file
    THEN [files |-> [f EXCEPT ![t.path] = t.buffer], task |-> ends(t, "")]
    ELSE IF t.pc = "resolve"
    \* the reader finds its file: the persistent one before the default one
    THEN LET config_file ==
                 IF t.op = "api_get_display_config"
                 THEN get_display_config_file(f, t.name)
                 ELSE IF module_load_display_config(f, t.name).exc
                             = "FileNotFoundError"
                      THEN NoPath
                      ELSE IF exists(f, persistent_file(t.name))
                           THEN persistent_file(t.name)
                           ELSE default_file(t.name)
         IN  [files |-> f,
              task |-> IF config_file = NoPath
                       THEN ends(t, "FileNotFoundError")
                       ELSE [t EXCEPT !.pc = "read", !.path = config_file]]
    ELSE IF t.pc = "read"
    \* with open(config_file, "r") as f: f.read(); in load_display_config
    \* yaml.safe_load(f) and DisplayConfig(config_data, display_type), which
    \* raise ValueError
    THEN [files |-> f,
          task |-> [ends(t, IF t.op = "api_get_eink_image"
                            THEN module_load_display_config(f, t.name).exc
                            ELSE "")
                      EXCEPT !.seen = ReadText(f[t.path])]]
    ELSE [files |-> f, task |-> t]

RECURSIVE run(_)
\* the handler runs from where it is to its next await, or to its end
run(s) ==
    LET n == step(s.files, s.task)
    IN  IF n.task.pc \in awaits \cup {"done"} THEN n ELSE run(n)

\* the display that a writer writes
target(t) ==
    IF t.op = "api_import_display_config" /\ endswith(t.filename, Ext)
    THEN strip_yaml(t.filename)
    ELSE t.name

\* the writers that have started and not ended, and write display name
in_flight(ts, name) ==
    {w \in Requests : /\ ts[w].op \in Writers
                      /\ ts[w].pc \notin {"start", "done"}
                      /\ target(ts[w]) = name}

\* the profiles of the loop specification
LoopNames == {NameA, NameB, NameUnicode}

\* the requests of the loop specification
Arrivals ==
    {arrival(op, n, NoName, NoName, NoText, FALSE) :
        op \in {"api_get_display_config"}, n \in LoopNames}
    \cup {arrival("api_get_eink_image", n, NoName, NoName, NoText, FALSE) :
            n \in {NameA, NameB}}
    \cup {arrival("api_save_display_config", n, NoName, NoName, text, FALSE) :
            n \in {NameA, NameB}, text \in {CfgLF, CfgBad}}
    \cup {arrival("api_duplicate_display_config", n, s, NoName, NoText, FALSE) :
            n \in {NameB, NameUnicode}, s \in {NameA, NameUnderscore}}
    \cup {arrival("api_import_display_config", NoName, NoName, fn, CfgCRLF, o) :
            fn \in {yaml_name(NameA), NotAnImage}, o \in BOOLEAN}

\* the files of EinkFiles, and requests that have arrived
LoopInit ==
    /\ files = EinkFiles
    /\ last = NoCall
    /\ gallery = Unused
    /\ img = Unused
    /\ tasks \in [Requests -> Arrivals]

\* the event loop resumes the handler of request i, which runs to its next
\* await or to its end
resume(i) ==
    /\ tasks[i].pc # "done"
    /\ \E n \in {run([files |-> files, task |-> tasks[i]])} :
        /\ files' = n.files
        /\ tasks' = [tasks EXCEPT ![i] =
                        IF n.task.op \in Readers /\ n.task.seen # NoText
                        THEN [n.task EXCEPT
                                !.concurrent = in_flight(tasks, n.task.name)]
                        ELSE n.task]
    /\ UNCHANGED <<last, gallery, img>>

api_get_display_config(i) ==
    /\ tasks[i].op = "api_get_display_config"
    /\ resume(i)

eink_load_display_config(i) ==
    /\ tasks[i].op = "api_get_eink_image"
    /\ resume(i)

api_save_display_config(i) ==
    /\ tasks[i].op = "api_save_display_config"
    /\ resume(i)

api_duplicate_display_config(i) ==
    /\ tasks[i].op = "api_duplicate_display_config"
    /\ resume(i)

api_import_display_config(i) ==
    /\ tasks[i].op = "api_import_display_config"
    /\ resume(i)

LoopNext ==
    \E i \in Requests :
        \/ api_get_display_config(i)
        \/ eink_load_display_config(i)
        \/ api_save_display_config(i)
        \/ api_duplicate_display_config(i)
        \/ api_import_display_config(i)

SpecLoop == LoopInit /\ [][LoopNext]_vars

-----------------------------------------------------------------------------
(* Requests of the gallery and of the e-ink endpoints on the event loop    *)
(*                                                                         *)
(* A request is a record with the handler's arguments, its position pc     *)
(* (the step it executes next), holds (the handler is running on the       *)
(* event loop: it is neither suspended at an await nor ended), its locals  *)
(* filename, eligible (images_to_choose_from), next_index and config, the  *)
(* exception raised, the response                                          *)
(* (status, message, available_displays, the headers X-Selected-Image and  *)
(* X-Image-Index, body), the state of its temporary directory and the      *)
(* files it has created for the render that still exist.  A handler runs   *)
(* without interruption up to an await of the request body or of aiofiles  *)
(* and is suspended there; aiofiles runs open, read, write and close in a  *)
(* worker thread, and the handler goes on when the event loop resumes it.  *)
(* The open of the worker thread is a step of its own: it creates the      *)
(* file, or finds it or not, at some time between the call and the resume  *)
(* (worker is "pending" from the call to that step, then "ok" or the name  *)
(* of the exception).  The read, the write and the close of the worker     *)
(* thread change nothing that the model holds.                             *)

\* the upload whose bytes are not an image (upload tests the extension only)
Undecodable == {ImgAB}

\* the steps at which a handler of the gallery is suspended: reader = await
\* request.multipart(), field = await reader.next(), data = await
\* field.read(), data = await request.json(), and in upload_image async
\* with aiofiles.open(file_path, "wb") as f: await f.write(data), and the
\* close at the end of the async with block
gallery_awaits ==
    {"multipart", "reader_next", "field_read", "json",
     "open_upload", "write_upload", "close_upload"}

\* the steps at which an e-ink handler is suspended: in get_image async
\* with aiofiles.open(file_path, "rb") as f: await f.read(), then async
\* with aiofiles.open(input_file, "wb") as f: await f.write(data), then
\* async with aiofiles.open(output_file, "rb") as f: await f.read(); the
\* end of each async with block awaits the close of the file
render_awaits ==
    {"open_image", "read_image", "close_image",
     "open_input", "write_input", "close_input",
     "open_output"}

\* a request of an e-ink handler (or of api_list_displays) that the server
\* has accepted and whose handler has not run
render_arrival(op, display, basename, tags, current_index) ==
    [op |-> op, display |-> display, basename |-> basename, tags |-> tags,
     current_index |-> current_index, tag_name |-> NoParam,
     pc |-> "start", holds |-> FALSE, worker |-> "none",
     filename |-> NoName, eligible |-> <<>>, next_index |-> NoIndex,
     config |-> <<>>,
     exc |-> "", status |-> 0, message |-> "", available_displays |-> <<>>,
     x_selected_image |-> NoName, x_image_index |-> NoParam, body |-> "",
     temp_dir |-> "none", artifacts |-> {}]

\* a request of a handler of the gallery: basename is the filename of the
\* URL or of the uploaded field, tag_name the tag of the body or of the URL
gallery_arrival(op, basename, tag_name) ==
    [render_arrival(op, NoParam, basename, NoParam, NoParam)
        EXCEPT !.tag_name = tag_name]

\* the handler goes on with the step pc
goes(t, pc) ==
    [t EXCEPT !.pc = pc, !.holds = pc \notin gallery_awaits \cup render_awaits]

\* the handler calls aiofiles.open and is suspended at the step pc: the
\* open is handed to the worker thread
calls_open(t, pc) == [goes(t, pc) EXCEPT !.worker = "pending"]

\* the handler is resumed after the open of the worker thread and goes on
\* with the step pc
resumes(t, pc) == [goes(t, pc) EXCEPT !.worker = "none"]

\* the handler returns a response
returns(t, status, message) ==
    [t EXCEPT !.pc = "done", !.holds = FALSE, !.worker = "none",
              !.status = status, !.message = message]

\* the except clauses of the handlers: "except ValueError" (400) of
\* api_upload_image, "except FileNotFoundError" (404) of api_get_eink_image
\* and api_delete_image, "except Exception" (500, the message is str(e))
raises(t, exc, why) ==
    [returns(t, IF exc = "ValueError" /\ t.op = "upload" THEN 400
                ELSE IF exc = "FileNotFoundError" /\ t.op \in {"image", "delete"}
                THEN 404 ELSE 500,
             IF exc = "FileNotFoundError" /\ t.op = "image"
             THEN "Image not found" ELSE why)
        EXCEPT !.exc = exc]

\* the end of the with block of tempfile.TemporaryDirectory(), left by a
\* return or by an exception: the directory and what is in it are removed
cleanup(t) ==
    [t EXCEPT !.temp_dir = "removed",
              !.artifacts = {a \in t.artifacts : a[1] # "temp_dir"}]

\* a gallery and a request after a step
after(g, t) == [gallery |-> g, task |-> t]

\* the e-ink handlers from their first statement to the selection of a
\* file: the galleries and requests this can end with (the request has
\* returned, or its local filename is set); get_images adds the rows that
\* are missing, random.choice can return every element
select(g, t) ==
    IF ~ truthy(t.display)
    THEN {after(g, returns(t, 400, "Missing required query parameter: display"))}
    ELSE IF t.op = "image"
    THEN {after(g, [t EXCEPT !.filename = filename_of(g, t.basename)])}
    ELSE IF t.op = "next" /\ t.current_index = NoParam
    THEN {after(g, returns(t, 400,
                           "Missing required query parameter: current_index"))}
    ELSE IF t.op = "next" /\ int(t.current_index).exc # ""
    THEN {after(g, returns(t, 400, "Invalid current_index value"))}
    ELSE UNION {
        IF from.status # 0
        THEN {after(after_get_images(g), returns(t, from.status, from.message))}
        ELSE IF from.images = <<>>
        THEN \* random.choice raises IndexError, the modulo ZeroDivisionError
             {after(after_get_images(g),
                    IF t.op = "random"
                    THEN raises(t, "IndexError",
                                "Cannot choose from an empty sequence")
                    ELSE raises(t, "ZeroDivisionError",
                                "integer division or modulo by zero"))}
        ELSE IF t.op = "random"
        THEN {after(after_get_images(g),
                    [t EXCEPT !.eligible = from.images,
                              !.filename = selected_image.filename]) :
                 selected_image \in choice(from.images)}
        ELSE {after(after_get_images(g),
                    [t EXCEPT !.eligible = from.images,
                              !.next_index = index,
                              !.filename = from.images[index + 1].filename]) :
                 index \in {next_index(int(t.current_index).value,
                                       Len(from.images))}} :
        from \in {images_to_choose_from(g, t.tags)}}

\* try: config = load_display_config(display_type), except
\* FileNotFoundError: the response 404 with list_available_displays()
loads(f, t) ==
    LET c == module_load_display_config(f, t.display)
    IN  IF c.exc = "FileNotFoundError"
        THEN [returns(t, 404, "Display type not found") EXCEPT
                  !.available_displays = list_available_displays(f)]
        ELSE IF c.exc # ""
        THEN raises(t, c.exc, c.why)
        ELSE [t EXCEPT !.config = c.config]

\* data = await gallery.get_image(filename) up to its first await: the test
\* file_path.exists(), then aiofiles.open
calls_get_image(g, t) ==
    IF ~ file_path_exists(g, t.filename)
    THEN raises(t, "FileNotFoundError", "Image not found")
    ELSE calls_open(t, "open_image")

\* the open of the worker thread for the request t, which is suspended at
\* aiofiles.open: open(file_path, "wb") of upload_image creates the file in
\* the images directory, open(file_path, "rb") of get_image finds the file
\* or raises, open(input_file, "wb") creates the input file of the render
\* where the path leads, open(output_file, "rb") finds no file (process_image
\* writes none)
opens(g, t) ==
    IF t.pc = "open_upload"
    THEN after(upload_image_open(g, t.filename), [t EXCEPT !.worker = "ok"])
    ELSE IF t.pc = "open_image"
    THEN after(g, [t EXCEPT !.worker = IF file_path_exists(g, t.filename)
                                       THEN "ok" ELSE "FileNotFoundError"])
    ELSE IF t.pc = "open_input"
    THEN after(g, IF join("temp_dir", t.filename)[1] = "none"
                  THEN [t EXCEPT !.worker = "FileNotFoundError"]
                  ELSE [t EXCEPT !.worker = "ok",
                                 !.artifacts = {join("temp_dir", t.filename)}])
    ELSE after(g, [t EXCEPT !.worker = "FileNotFoundError"])

\* one step of an e-ink handler (or of api_list_displays): the galleries
\* and requests it can end with
render_step(f, g, t) ==
    IF t.pc = "start"
    THEN IF t.op = "list"
         \* api_list_displays has no await
         THEN {after(g, returns(t, 200, ""))}
         ELSE {IF s.task.pc = "done" THEN s
               ELSE IF loads(f, s.task).pc = "done"
               THEN after(s.gallery, loads(f, s.task))
               ELSE after(s.gallery, calls_get_image(s.gallery, loads(f, s.task))) :
                  s \in select(g, t)}
    ELSE IF t.pc = "open_image"
    \* async with aiofiles.open(file_path, "rb") as f: the open of the worker
    \* thread has found the file or has raised
    THEN {after(g, IF t.worker = "ok" THEN resumes(t, "read_image")
                   ELSE raises(t, t.worker, "No such file or directory"))}
    ELSE IF t.pc = "read_image"
    \* return await f.read(): the end of the async with block closes the file
    THEN {after(g, goes(t, "close_image"))}
    ELSE IF t.pc = "close_image"
    \* get_image returns; params = config.to_process_image_params(); with
    \* tempfile.TemporaryDirectory() as temp_dir: aiofiles.open(input_file)
    THEN {after(g,
                IF invalid_color_format(t.config)
                THEN raises(t, "ValueError", "Invalid color format")
                ELSE [calls_open(t, "open_input") EXCEPT !.temp_dir = "exists"])}
    ELSE IF t.pc = "open_input"
    THEN {after(g, IF t.worker = "ok" THEN resumes(t, "write_input")
                   ELSE raises(cleanup(t), t.worker,
                               "No such file or directory"))}
    ELSE IF t.pc = "write_input"
    \* await f.write(data): the end of the async with block closes the file
    THEN {after(g, goes(t, "close_input"))}
    ELSE IF t.pc = "close_input"
    THEN {after(g, goes(t, "process_image"))}
    ELSE IF t.pc = "process_image"
    \* process_image(input_path=..., output_path=..., ...): a plain call
    THEN {after(g,
                IF ~ (process_image_keywords \subseteq process_image_parameters)
                THEN raises(cleanup(t), "TypeError",
                            "unexpected keyword argument")
                ELSE IF t.filename \in Undecodable
                THEN raises(cleanup(t), "UnidentifiedImageError",
                            "cannot identify image file")
                ELSE calls_open(t, "open_output"))}
    ELSE IF t.pc = "open_output"
    \* aiofiles.open(output_file, "rb"): process_image wrote no file
    THEN {after(g, raises(cleanup(t), t.worker, "No such file or directory"))}
    ELSE {after(g, t)}

\* one step of a handler of the gallery: api_upload_image, api_delete_image,
\* api_add_tag, api_remove_tag, api_get_images
gallery_step(g, t) ==
    IF t.op = "upload"
    THEN IF t.pc = "start" THEN {after(g, goes(t, "multipart"))}
         ELSE IF t.pc = "multipart" THEN {after(g, goes(t, "reader_next"))}
         \* field = await reader.next(): the field "file" of the body
         ELSE IF t.pc = "reader_next" THEN {after(g, goes(t, "field_read"))}
         ELSE IF t.pc = "field_read"
         \* gallery.upload_image(filename, data, title) up to aiofiles.open
         THEN {IF ~ is_image(t.basename)
               THEN after(g, raises(t, "ValueError", "Invalid image format"))
               ELSE after(g, [calls_open(t, "open_upload") EXCEPT
                                  !.filename = t.basename])}
         ELSE IF t.pc = "open_upload"
         THEN {after(g, resumes(t, "write_upload"))}
         \* await f.write(data): the end of the async with block closes the file
         ELSE IF t.pc = "write_upload" THEN {after(g, goes(t, "close_upload"))}
         ELSE IF t.pc = "close_upload"
         \* add_image, remove_tag_from_all_images("latest") and
         \* add_tag(filename, "latest")
         THEN {after(upload_image_rows(g, t.filename), returns(t, 200, ""))}
         ELSE {after(g, t)}
    ELSE IF t.op = "delete"
    \* api_delete_image has no await that suspends it
    THEN {IF r.exc # ""
          THEN after(g, [raises(t, r.exc, "Image not found") EXCEPT
                             !.filename = filename_of(g, t.basename)])
          ELSE after(r.gallery, [returns(t, 200, "") EXCEPT
                                     !.filename = filename_of(g, t.basename)]) :
             r \in {delete_image(g, filename_of(g, t.basename))}}
    ELSE IF t.op = "add_tag"
    THEN IF t.pc = "start"
         \* the file name is found before data = await request.json()
         THEN {after(g, [goes(t, "json") EXCEPT
                             !.filename = filename_of(g, t.basename)])}
         ELSE IF t.pc = "json"
         THEN {IF ~ truthy(t.tag_name)
               THEN after(g, returns(t, 400, "Missing 'tag' field"))
               ELSE after(add_tag(g, t.filename, t.tag_name),
                          returns(t, 200, ""))}
         ELSE {after(g, t)}
    ELSE IF t.op = "remove_tag"
    \* api_remove_tag has no await
    THEN {IF r.ok
          THEN after(r.gallery, [returns(t, 200, "") EXCEPT
                                     !.filename = filename_of(g, t.basename)])
          ELSE after(g, [returns(t, 500, "Failed to remove tag") EXCEPT
                             !.filename = filename_of(g, t.basename)]) :
             r \in {remove_tag(g, filename_of(g, t.basename), t.tag_name)}}
    ELSE \* api_get_images has no await (api_get_status calls get_images in
         \* the same way)
         {after(after_get_images(g), returns(t, 200, ""))}

\* the event loop can run the handler of request i: no other handler is
\* running
can_run(ts, i) == \A j \in Requests \ {i} : ~ ts[j].holds

\* the event loop runs one step of the handler of request i
handler_step(i) ==
    /\ tasks[i].pc # "done"
    /\ tasks[i].worker # "pending"
    /\ can_run(tasks, i)
    /\ \E n \in IF tasks[i].op \in {"image", "random", "next", "list"}
                THEN render_step(files, gallery, tasks[i])
                ELSE gallery_step(gallery, tasks[i]) :
           /\ gallery' = n.gallery
           /\ tasks' = [tasks EXCEPT ![i] = n.task]
    /\ UNCHANGED <<files, last, img>>

step_api_upload_image(i) ==
    /\ tasks[i].op = "upload"
    /\ handler_step(i)

step_api_delete_image(i) ==
    /\ tasks[i].op = "delete"
    /\ handler_step(i)

step_api_add_tag(i) ==
    /\ tasks[i].op = "add_tag"
    /\ handler_step(i)

step_api_remove_tag(i) ==
    /\ tasks[i].op = "remove_tag"
    /\ handler_step(i)

step_api_get_images(i) ==
    /\ tasks[i].op = "get_images"
    /\ handler_step(i)

step_api_get_eink_image(i) ==
    /\ tasks[i].op = "image"
    /\ handler_step(i)

step_api_get_random_eink_image(i) ==
    /\ tasks[i].op = "random"
    /\ handler_step(i)

step_api_get_next_eink_image(i) ==
    /\ tasks[i].op = "next"
    /\ handler_step(i)

step_api_list_displays(i) ==
    /\ tasks[i].op = "list"
    /\ handler_step(i)

\* the worker thread of aiofiles runs the open that the handler of request
\* i has called and waits for; it runs beside the event loop
aiofiles_open(i) ==
    /\ tasks[i].worker = "pending"
    /\ \E n \in {opens(gallery, tasks[i])} :
           /\ gallery' = n.gallery
           /\ tasks' = [tasks EXCEPT ![i] = n.task]
    /\ UNCHANGED <<files, last, img>>

-----------------------------------------------------------------------------
(* The gallery and the e-ink endpoints under requests in flight            *)

\* the gallery after the upload of filename, handled alone
uploaded(g, filename) == upload_image_rows(upload_image_open(g, filename), filename)

\* one upload
GalleryA == uploaded(EmptyGallery, ImgA)

\* the upload of a.jpg, tagged "Sun", and the uploads of ab.jpg and b.jpg
GalleryThree ==
    uploaded(uploaded(add_tag(GalleryA, ImgA, TagSun), ImgAB), ImgB)

\* the upload of a.jpg, tagged "Sun", then deleted: its tag rows stay
GalleryDeleted == delete_image(add_tag(GalleryA, ImgA, TagSun), ImgA).gallery

\* the upload of a.jpg, tagged "Sun", its tag "latest" removed
GallerySun ==
    remove_tag(add_tag(GalleryA, ImgA, TagSun), ImgA, TagLatest).gallery

\* the galleries the requests of the e-ink specification arrive at
EinkGalleries ==
    {EmptyGallery, GalleryA, GalleryThree, GalleryDeleted, GallerySun}

\* a tag that no request has added
TagX == <<"x">>

\* the requests of the e-ink specification
EinkArrivals ==
    {gallery_arrival("upload", fn, NoParam) : fn \in {ImgA, ImgB, NotAnImage}}
    \cup {gallery_arrival("delete", b, NoParam) : b \in {NameA, NameUnderscore}}
    \cup {gallery_arrival("add_tag", NameA, tag) : tag \in {TagSun, NoParam}}
    \cup {gallery_arrival("remove_tag", NameA, tag) : tag \in {TagSun, TagX}}
    \cup {gallery_arrival("get_images", NoName, NoParam)}
    \cup {render_arrival("image", d, NameA, NoParam, NoParam) : d \in DisplayParams}
    \cup {render_arrival("image", NameA, b, NoParam, NoParam) : b \in Basenames}
    \cup {render_arrival("random", d, NoName, NoParam, NoParam) :
            d \in DisplayParams}
    \cup {render_arrival("random", NameA, NoName, tags, NoParam) :
            tags \in TagParams}
    \cup {render_arrival("next", d, NoName, NoParam, <<"2">>) :
            d \in DisplayParams}
    \cup {render_arrival("next", NameA, NoName, tags, ci) :
            tags \in TagParams, ci \in IndexParams}

EinkInit ==
    /\ files = EinkFiles
    /\ last = NoCall
    /\ gallery \in EinkGalleries
    /\ img = Unused
    /\ tasks \in [Requests -> EinkArrivals]

\* the handlers that change the gallery or select from it; api_get_image,
\* api_get_image_metadata, api_update_image_metadata (title and description)
\* and api_get_all_tags change neither the directory nor the rows of the
\* model
EinkNext ==
    \E i \in Requests :
        \/ step_api_upload_image(i)
        \/ step_api_delete_image(i)
        \/ step_api_add_tag(i)
        \/ step_api_remove_tag(i)
        \/ step_api_get_images(i)
        \/ step_api_get_eink_image(i)
        \/ step_api_get_random_eink_image(i)
        \/ step_api_get_next_eink_image(i)
        \/ aiofiles_open(i)

SpecEink == EinkInit /\ [][EinkNext]_vars

-----------------------------------------------------------------------------
(* Render requests with file names that are paths                          *)

\* the gallery of the render specification: two uploads
RenderGallery == uploaded(GalleryA, ImgAB)

\* the requests of the render specification
RenderArrivals ==
    {render_arrival("image", d, b, NoParam, NoParam) :
        d \in {NameA, NameUnderscore},
        b \in {NameA, ImgAB, NameUnderscore, UpMetadataDb, UpImagesA}}
    \cup {render_arrival("random", NameA, NoName, NoParam, NoParam),
          render_arrival("next", NameA, NoName, NoParam, <<"2">>),
          render_arrival("list", NoParam, NoName, NoParam, NoParam)}

RenderInit ==
    /\ files = EinkFiles
    /\ last = NoCall
    /\ gallery = RenderGallery
    /\ img = Unused
    /\ tasks \in [Requests -> RenderArrivals]

RenderNext ==
    \E i \in Requests :
        \/ step_api_get_eink_image(i)
        \/ step_api_get_random_eink_image(i)
        \/ step_api_get_next_eink_image(i)
        \/ step_api_list_displays(i)
        \/ aiofiles_open(i)

SpecRender == RenderInit /\ [][RenderNext]_vars

-----------------------------------------------------------------------------
(* The name test as a function of the name *)

\* the length of the names tested
MaxNameLen == 2

\* the characters of the names tested: a letter, a digit, "_", "-", a space,
\* a dot, a path separator, a non-ASCII letter
NameChars == {"a", "1", "_", "-", " ", ".", "/", "U+00E9"}

TestedNames == UNION {[1..k -> NameChars] : k \in 0..MaxNameLen}

\* a name that duplicate or import is about to test
untested(name) == [op |-> "none", name |-> name, accepted |-> FALSE]

NameInit ==
    /\ files = Unused
    /\ last \in {untested(name) : name \in TestedNames}
    /\ gallery = Unused
    /\ img = Unused
    /\ tasks = Unused

\* the test of new_name in duplicate_display_config and of display_name in
\* import_display_config
NameCheck ==
    /\ last.op = "none"
    /\ last' = [last EXCEPT !.op = "name_check",
                            !.accepted = name_check(last.name)]
    /\ UNCHANGED <<files, gallery, img, tasks>>

NameNext == NameCheck

SpecName == NameInit /\ [][NameNext]_vars

-----------------------------------------------------------------------------
(* The profile store called with names that are paths *)

\* the names of the calls: a profile, and the absolute path of its default file
PathNames == {NameA, AbsDefaultA}

PathsNext ==
    \/ ListDisplays
    \/ \E name \in PathNames : LoadDisplayConfig(name)
    \/ \E name \in PathNames : ExportDisplayConfig(name)
    \/ \E name \in PathNames, text \in {CfgLF, CfgBad} :
           SaveDisplayConfig(name, text)
    \/ \E name \in PathNames : ResetDisplayConfig(name)
    \/ \E source \in PathNames, new_name \in {NameB, AbsDefaultA} :
           DuplicateDisplayConfig(source, new_name)
    \/ \E name \in PathNames : DeleteDisplayConfig(name)
    \/ \E filename \in {yaml_name(NameA), yaml_name(AbsDefaultA)},
          text \in {CfgLF, CfgBad}, overwrite \in BOOLEAN :
           ImportDisplayConfig(filename, text, overwrite)

SpecPaths == Init /\ [][PathsNext]_vars

-----------------------------------------------------------------------------
(* The words of the specification *)

\* the characters of [A-Za-z0-9_-]
PatternChars == AsciiAlnum \cup {"_", "-"}

\* the name pattern of spec section 3: [A-Za-z0-9_-]+
MatchesPattern(name) ==
    /\ Len(name) > 0
    /\ \A i \in 1..Len(name) : name[i] \in PatternChars

NotFound(call) == call.exc = "FileNotFoundError"

InvalidName(call) ==
    call.exc = "ValueError" /\ call.why = "Display name must contain only"

AlreadyExists(call) ==
    \/ call.exc = "ValueError" /\ call.why = "already exists"
    \/ call.exc = "FileExistsError"

InvalidConfig(call) == call.exc = "ValueError" /\ call.why = "Invalid YAML"

Succeeded(call) == call.exc = ""

\* what load returns for a name whose file holds the given bytes
Loaded(bytes) == [exc |-> "", content |-> ReadText(bytes)]

LoadFails == [exc |-> "FileNotFoundError", content |-> NoText]

-----------------------------------------------------------------------------
(* Claims *)

\* C1: load(name) returns the content of the override entry when the name has
\* one, otherwise the content of the default entry when the name has one, and
\* fails with NotFound when the name is in neither tier.
C1_LoadResolves ==
    last.op = "load" =>
        LET n == last.display_name
            got == [exc |-> last.exc, content |-> last.content]
        IN  IF n \in Overrides(files)
            THEN got = Loaded(files[persistent_file(n)])
            ELSE IF n \in Defaults(files)
                 THEN got = Loaded(files[default_file(n)])
                 ELSE got = LoadFails /\ NotFound(last)

\* a load of a name that has both an override and a default entry
C1_Witness ==
    /\ last.op = "load"
    /\ last.display_name \in Overrides(files) \cap Defaults(files)
    /\ Succeeded(last)
    /\ files[persistent_file(last.display_name)]
           # files[default_file(last.display_name)]

\* C2: after a successful save(name, content), load(name) returns exactly
\* content and list() reports name with is_custom = true.
C2_SaveThenLoad ==
    (last.op = "save" /\ Succeeded(last)) =>
        /\ load_display_config(files, last.display_name)
               = [exc |-> "", content |-> last.yaml_content]
        /\ \E d \in Reported(files, last.display_name) : d.is_custom

\* C3: save fails with InvalidConfig and writes nothing whenever no
\* ProfileModel can be built from the content, so the entry a save has written
\* holds a configuration from which a ProfileModel can be built.
C3_SaveValidates ==
    last.op = "save" =>
        /\ ~ BuildsProfile(last.yaml_content) => InvalidConfig(last)
        /\ Succeeded(last) =>
               BuildsProfile(ReadText(files[persistent_file(last.display_name)]))

\* C4: for a name with a default entry, save(name, content) followed by
\* reset(name) succeeds, load(name) then returns the default content (which is
\* what load(name) returned before the save when the name had no override
\* then), and list() reports the name with is_custom = false.
C4_SaveThenReset ==
    (/\ last.op = "reset"
     /\ last.prev.op = "save"
     /\ last.display_name \in Defaults(files)) =>
        LET n == last.display_name
        IN  /\ Succeeded(last)
            /\ load_display_config(files, n) = Loaded(files[default_file(n)])
            /\ ~ last.prev.was_custom =>
                   load_display_config(files, n) = last.prev.before
            /\ Reported(files, n)
                   = {[name |-> n, is_custom |-> FALSE, modified_at |-> "None"]}

\* a reset that directly follows the save of a name with a default entry
C4_Witness ==
    /\ last.op = "reset"
    /\ last.prev.op = "save"
    /\ ~ last.prev.was_custom
    /\ last.display_name \in Defaults(files)
    /\ Succeeded(last)

\* C5: reset(name) fails with NotFound when the name has no override entry,
\* and fails with NotFound when it has an override entry but no default entry;
\* in both cases no file changes, so in the second the override entry is kept
\* with its content; and no reset makes a name that load resolved fail to load.
C5_ResetNotFound ==
    [][last'.op = "reset" =>
        LET n == last'.display_name
        IN  /\ \A m \in Names :
                   Succeeded(load_display_config(files, m)) =>
                       Succeeded(load_display_config(files', m))
            /\ n \notin Overrides(files) =>
                /\ NotFound(last')
                /\ files' = files
            /\ (n \in Overrides(files) /\ n \notin Defaults(files)) =>
                /\ NotFound(last')
                /\ files' = files
                /\ load_display_config(files', n)
                       = Loaded(files[persistent_file(n)])]_vars

\* a failed reset of a name that has an override entry and no default entry
C5_Witness ==
    /\ last.op = "reset"
    /\ NotFound(last)
    /\ last.display_name \in Overrides(files) \ Defaults(files)

\* C6 as stated: after a successful duplicate(source, new_name), load(new_name)
\* returns what load(source) returned at the moment of duplication, and a save,
\* reset or delete of source that follows does not change load(new_name).
C6_DuplicateIndependent ==
    /\ (last.op = "duplicate" /\ Succeeded(last)) =>
           /\ Succeeded(last.before)
           /\ load_display_config(files, last.display_name) = last.before
    /\ (last.op \in {"save", "reset", "delete"} /\ last.prev.op = "duplicate") =>
           load_display_config(files, last.prev.display_name) = last.prev.before

\* C6 amended: after a successful duplicate(source, new_name), load(new_name)
\* returns what load(source) returned just before; and a save, reset or delete
\* of a name changes what load returns for no other name, so a later save,
\* reset or delete of source does not change load(new_name) when new_name is
\* another name than source.
C6_DuplicateIndependentOfOtherNames ==
    [][/\ (last'.op = "duplicate" /\ Succeeded(last')) =>
              /\ Succeeded(load_display_config(files, last'.source_name))
              /\ load_display_config(files', last'.display_name)
                     = load_display_config(files, last'.source_name)
       /\ last'.op \in {"save", "reset", "delete"} =>
              \A n \in Names \ {last'.display_name} :
                  load_display_config(files', n) = load_display_config(files, n)
      ]_vars

\* a successful save of the source of the duplicate made just before, under
\* another name, of a source that had an override entry
C6_Witness ==
    /\ last.op = "save"
    /\ Succeeded(last)
    /\ last.was_custom
    /\ last.prev.op = "duplicate"
    /\ last.prev.display_name # last.prev.source_name
    /\ load_display_config(files, last.prev.display_name) = last.prev.before
    /\ load_display_config(files, last.display_name) # last.prev.before

\* C7: duplicate(source, new_name) with a new_name that violates the pattern
\* [A-Za-z0-9_-]+ fails with InvalidName, also when source does not exist.
C7_InvalidNameFirst ==
    (last.op = "duplicate" /\ ~ MatchesPattern(last.display_name)) =>
        InvalidName(last)

\* C8: for a new_name that matches the pattern and a source that resolves,
\* duplicate fails with AlreadyExists exactly when new_name has an override
\* entry; a new_name with only a default entry is no collision, and the
\* duplicate then creates its override entry.
C8_DuplicateCollision ==
    (/\ last.op = "duplicate"
     /\ MatchesPattern(last.display_name)
     /\ Succeeded(last.before)) =>
        /\ AlreadyExists(last) <=> last.was_custom
        /\ (~ last.was_custom /\ last.display_name \in Defaults(files)) =>
               /\ Succeeded(last)
               /\ last.display_name \in Overrides(files)

\* C9: import onto a name that has an override entry fails with AlreadyExists
\* and leaves the content as it was when overwrite is false, and succeeds, so
\* that load(name) returns the imported content, when overwrite is true; a
\* name without an override entry never gives AlreadyExists.  (Stated for a
\* filename that ends in ".yaml" and well-formed content.)
C9_ImportOverwrite ==
    (/\ last.op = "import"
     /\ last.display_name \in Names
     /\ ~ yaml_safe_load(last.yaml_content).error) =>
        LET n == last.display_name
        IN  /\ (last.was_custom /\ ~ last.overwrite) =>
                   /\ AlreadyExists(last)
                   /\ load_display_config(files, n) = last.before
            /\ (last.was_custom /\ last.overwrite) =>
                   /\ Succeeded(last)
                   /\ load_display_config(files, n)
                          = [exc |-> "", content |-> last.yaml_content]
            /\ ~ last.was_custom => ~ AlreadyExists(last)

\* C10: delete(name) fails with NotFound and changes no file when the name has
\* no override entry, also when it has a default entry; otherwise it succeeds
\* and removes the override entry of the name and nothing else, and load(name)
\* then returns the default content when the name has a default entry and
\* fails with NotFound when it has none.
C10_DeleteOnlyOverride ==
    [][last'.op = "delete" =>
        LET n == last'.display_name
        IN  IF n \notin Overrides(files)
            THEN NotFound(last') /\ files' = files
            ELSE /\ Succeeded(last')
                 /\ files' = [files EXCEPT ![persistent_file(n)] = NoFile]
                 /\ load_display_config(files', n)
                        = IF n \in Defaults(files)
                          THEN Loaded(files[default_file(n)])
                          ELSE LoadFails]_vars

\* a successful delete of the override entry of a name with a default entry
C10_Witness ==
    /\ last.op = "delete"
    /\ Succeeded(last)
    /\ last.was_custom
    /\ last.display_name \in Defaults(files)
    /\ load_display_config(files, last.display_name)
           = Loaded(files[default_file(last.display_name)])

-----------------------------------------------------------------------------
\* C11: in every reachable state of the two directories list() returns
\* exactly one record for each name that has a file in either directory and
\* none for any other name; a record has is_custom = TRUE exactly when the
\* name has a persistent file, and a modified_at exactly when is_custom.
C11_ListExact ==
    LET L == list_displays(files)
    IN  /\ \A n \in Names :
              Cardinality({i \in 1..Len(L) : L[i].name = n})
                  = IF n \in Overrides(files) \cup Defaults(files) THEN 1 ELSE 0
        /\ \A i \in 1..Len(L) :
              /\ L[i].name \in Names
              /\ L[i].is_custom = (L[i].name \in Overrides(files))
              /\ (L[i].modified_at # "None") = L[i].is_custom

\* list() was called with a customised default, a default-free custom
\* profile and nothing else: it returned the two records, both custom
C11_Witness ==
    /\ last.op = "list"
    /\ Overrides(files) = {NameA, NameB}
    /\ Defaults(files) = {NameA}
    /\ Len(last.displays) = 2
    /\ \A i \in 1..2 : last.displays[i].is_custom

-----------------------------------------------------------------------------
(* The words of the specification for selection and rendering *)

\* the elements of a sequence
Range(seq) == {seq[i] : i \in 1..Len(seq)}

\* the terms of a tag filter
Terms(tags_param) == Range(requested_tags(tags_param))

\* a tag of the image equals a term of the filter, ignoring case
CarriesMatchingTag(image, tags_param) ==
    \E tag \in image.tags, term \in Terms(tags_param) : lower(tag) = lower(term)

\* the images of the collaborator that are eligible under the tags parameter
Eligible(g, tags_param) ==
    {image \in Range(get_images(g)) :
         truthy(tags_param) => CarriesMatchingTag(image, tags_param)}

\* seq holds exactly the images of S, each once, in the order of the
\* collaborator's list
InCollaboratorOrder(seq, S, g) ==
    /\ Range(seq) = S
    /\ Len(seq) = Cardinality(S)
    /\ \A i, j \in 1..Len(seq) :
           i < j => str_lt(seq[i].filename, seq[j].filename)

\* the elements of seq are in the order of the collaborator's list, each once
InOrder(seq) ==
    \A i, j \in 1..Len(seq) : i < j => str_lt(seq[i].filename, seq[j].filename)

\* r is a selection request that carries a display and, under Next, an
\* integer current_index
WellFormedSelection(r) ==
    /\ r.op \in {"random", "next"}
    /\ truthy(r.display)
    /\ r.op = "next" =>
           (r.current_index # NoParam /\ int(r.current_index).exc = "")

\* the display of the request names a profile that exists and builds
NamesValidProfile(r) ==
    /\ r.display \in Names
    /\ module_load_display_config(files, r.display).exc = ""

\* the handler of request i has returned its response
Returned(i) == tasks[i].pc = "done"

\* the handler of request i has read its source image and gone on to render
\* it
SourceRead(i) == tasks[i].temp_dir # "none"

\* C12: under Next with n eligible images, n > 0, and an integer
\* current_index, the returned index is (current_index + 1) mod n, lies in
\* 0..n-1, and the returned image is the element at that index of the
\* eligible list (for a request that names a valid profile and whose image
\* is still in the gallery when the handler reads it).
C12_NextIndex ==
    \A i \in Requests :
        ( /\ Returned(i)
          /\ tasks[i].op = "next"
          /\ WellFormedSelection(tasks[i])
          /\ NamesValidProfile(tasks[i])
          /\ tasks[i].eligible # <<>>
          /\ SourceRead(i) ) =>
            LET n == Len(tasks[i].eligible)
                k == (int(tasks[i].current_index).value + 1) % n
            IN  /\ tasks[i].x_image_index = str(k)
                /\ k \in 0..(n - 1)
                /\ tasks[i].x_selected_image = tasks[i].eligible[k + 1].filename

\* C13: under a tag filter the eligible list holds exactly the images that
\* carry a tag equal, ignoring case, to one of the terms, in the order of
\* the collaborator; it is the list both policies choose from, so a
\* selected image carries a matching tag.
C13_TagFilter ==
    /\ \A tags_param \in TagParams :
           truthy(tags_param) =>
               InCollaboratorOrder(
                   filter_images_by_tags(get_images(gallery), tags_param),
                   Eligible(gallery, tags_param), gallery)
    /\ \A i \in Requests :
           ( /\ tasks[i].op \in {"random", "next"}
             /\ tasks[i].filename # NoName
             /\ truthy(tasks[i].tags) ) =>
               /\ \A image \in Range(tasks[i].eligible) :
                      CarriesMatchingTag(image, tasks[i].tags)
               /\ \E image \in Range(tasks[i].eligible) :
                      image.filename = tasks[i].filename

\* a Random request with the filter " SUN ,latest" chose, among three
\* images of which two are eligible, the one tagged "Sun" and not "latest"
C13_Witness ==
    \E i \in Requests :
        /\ tasks[i].op = "random"
        /\ truthy(tasks[i].tags)
        /\ Len(get_images(gallery)) = 3
        /\ Len(tasks[i].eligible) = 2
        /\ \E image \in Range(tasks[i].eligible) :
               /\ image.filename = tasks[i].filename
               /\ image.tags = {TagSun}

\* C14: a Random or Next request whose eligible set is empty ends with
\* NotFound (404, not 500): no image is selected, no index is computed or
\* returned, nothing is rendered.
C14_EmptyEligible ==
    \A i \in Requests :
        ( /\ Returned(i)
          /\ WellFormedSelection(tasks[i])
          /\ tasks[i].eligible = <<>> ) =>
            /\ tasks[i].status = 404
            /\ tasks[i].filename = NoName
            /\ tasks[i].next_index = NoIndex
            /\ tasks[i].x_selected_image = NoName
            /\ tasks[i].x_image_index = NoParam
            /\ tasks[i].body = ""
            /\ tasks[i].temp_dir = "none"

\* a Next request with a filter that no image of a non-empty gallery
\* matches was answered
C14_Witness ==
    \E i \in Requests :
        /\ Returned(i)
        /\ tasks[i].op = "next"
        /\ WellFormedSelection(tasks[i])
        /\ truthy(tasks[i].tags)
        /\ tasks[i].message = "No images found with tags"
        /\ tasks[i].status = 404

\* C15: the image a Random request selects is a member of the eligible
\* set, and every member of the eligible set is selected in one of the
\* outcomes the request can have.
C15_RandomMember ==
    /\ \A i \in Requests :
           (tasks[i].op = "random" /\ tasks[i].filename # NoName) =>
               tasks[i].filename
                   \in {image.filename : image \in Range(tasks[i].eligible)}
    /\ \A display_type \in DisplayParams \ {NoParam}, tags_param \in TagParams :
           Eligible(gallery, tags_param) # {} =>
               {s.task.filename :
                    s \in select(gallery,
                                 render_arrival("random", display_type, NoName,
                                                tags_param, NoParam))}
                   = {image.filename : image \in Eligible(gallery, tags_param)}

\* a Random request chose the last of three eligible images
C15_Witness ==
    \E i \in Requests :
        /\ tasks[i].op = "random"
        /\ Len(tasks[i].eligible) = 3
        /\ tasks[i].filename = tasks[i].eligible[3].filename

\* C16: a render or selection request that names a valid profile and
\* resolves to an image of the gallery that can be decoded ends with the
\* bitmap (status 200, the PNG body), the filename under Random and Next,
\* the index under Next.
C16_RenderSucceeds ==
    \A i \in Requests :
        ( /\ Returned(i)
          /\ tasks[i].op \in {"image", "random", "next"}
          /\ NamesValidProfile(tasks[i])
          /\ SourceRead(i)
          /\ tasks[i].filename \notin Undecodable ) =>
            /\ tasks[i].status = 200
            /\ tasks[i].body = "image/png"
            /\ tasks[i].op # "image" =>
                   tasks[i].x_selected_image = tasks[i].filename
            /\ tasks[i].op = "next" =>
                   tasks[i].x_image_index = str(tasks[i].next_index)

\* the palette the profile of the call configures
ConfiguredPalette(job) == yaml_safe_load(ReadText(job.text)).color_mapping.palette

\* the call ran in letterbox mode and returned an image
Letterboxed(job) == job.out.exc = "" /\ job.resize /\ ~ job.crop

\* C17: every colour of an output image, dithered or not, is one of the
\* colours the profile configures (the first len(palette) slots of the
\* palette image): the padding slots are never chosen.
C17_OutputInPalette ==
    img.out.exc = "" => img.out.colours \subseteq Range(ConfiguredPalette(img))

\* C18: a profile with an empty palette never yields an output image: the
\* call ends in an error.
C18_EmptyPaletteFails ==
    ( /\ img.out # NoOut
      /\ DisplayConfigInit(yaml_safe_load(ReadText(img.text)))
      /\ ConfiguredPalette(img) = <<>> ) => img.out.exc # ""

\* C19: in letterbox mode the canvas is exactly width x height, the content
\* has the source size times min(width / src_w, height / src_h) to within
\* one pixel (it spans the full width or the full height), and the borders
\* left and right, and top and bottom, differ by at most one pixel.
C19_Letterbox ==
    Letterboxed(img) =>
        LET width == get_resolution(yaml_safe_load(ReadText(img.text)))[1]
            height == get_resolution(yaml_safe_load(ReadText(img.text)))[2]
            src_w == img.source.size[1]
            src_h == img.source.size[2]
            left == img.out.box[1]
            top == img.out.box[2]
            w == img.out.box[3]
            h == img.out.box[4]
        IN  /\ img.out.size = <<width, height>>
            /\ IF width * src_h <= height * src_w
               THEN \* the factor is width / src_w
                    /\ abs_diff(w, width) <= 1
                    /\ abs_diff(h * src_w, src_h * width) <= src_w
               ELSE \* the factor is height / src_h
                    /\ abs_diff(h, height) <= 1
                    /\ abs_diff(w * src_h, src_w * height) <= src_h
            /\ abs_diff(left, width - w - left) <= 1
            /\ abs_diff(top, height - h - top) <= 1

-----------------------------------------------------------------------------
(* The words of the specification for concurrent requests *)

\* request r has loaded a profile: it has read the file of the profile
HasLoaded(r) ==
    /\ tasks[r].op \in Readers
    /\ tasks[r].pc = "done"
    /\ tasks[r].seen # NoText

\* request w has written the profile name
HasWritten(w, name) ==
    /\ tasks[w].op \in Writers
    /\ tasks[w].pc = "done"
    /\ tasks[w].exc = ""
    /\ target(tasks[w]) = name

\* the complete contents that a load of name can obtain: those of the files
\* that the service started with, and those that a write has put there
CompleteContents(name) ==
    {ReadText(EinkFiles[p]) :
        p \in {p \in {persistent_file(name), default_file(name)} :
                 EinkFiles[p] # NoFile}}
    \cup {ReadText(WriteText(tasks[w].text)) :
            w \in {w \in Requests : HasWritten(w, name)}}

\* C20: a request that loads a profile obtains a complete content of that
\* profile, the one from before a write or the one from after it, also when
\* a request that writes the same name is in flight: never an empty content
\* and never a part of one
C20_AtomicLoad ==
    \A r \in Requests :
        HasLoaded(r) =>
            /\ tasks[r].seen # <<>>
            /\ tasks[r].seen \in CompleteContents(tasks[r].name)

\* a request has loaded a profile while a request that writes the same name
\* was suspended in its handler; the writer has written since then, and the
\* reader has the complete content from before that write
C20_Witness ==
    \E r \in Requests :
        /\ HasLoaded(r)
        /\ \E w \in tasks[r].concurrent :
            /\ HasWritten(w, tasks[r].name)
            /\ tasks[r].seen # ReadText(WriteText(tasks[w].text))
            /\ tasks[r].seen \in CompleteContents(tasks[r].name)

-----------------------------------------------------------------------------
(* The words of the specification for render requests *)

\* the render of request i is in progress: its handler is at process_image
Rendering(i) == tasks[i].pc = "process_image"

\* C21: while the render of one request is in progress, the event loop can
\* run the handler of every other request that has not ended: the handler
\* that renders does not hold the event loop
C21_RenderOffLoop ==
    \A i \in Requests :
        Rendering(i) =>
            \A j \in Requests \ {i} :
                tasks[j].pc # "done" => can_run(tasks, j)

\* the invariant of a ProfileModel: width and height positive, the palette
\* non-empty, every entry three integers in 0..255
ValidProfileModel(config_data) ==
    /\ DOMAIN config_data.resolution = {"width", "height"}
    /\ config_data.resolution.width > 0
    /\ config_data.resolution.height > 0
    /\ DOMAIN config_data.color_mapping = {"palette"}
    /\ config_data.color_mapping.palette # <<>>
    /\ \A i \in DOMAIN config_data.color_mapping.palette :
           LET colour == config_data.color_mapping.palette[i]
           IN  /\ Len(colour) = 3
               /\ \A k \in 1..3 : colour[k] \in 0..255

\* C22: the constructor of a profile returns only for a configuration with
\* width > 0, height > 0 and a non-empty palette of 3-tuples of integers in
\* 0..255; every other configuration is rejected at construction.
C22_ValidAtConstruction ==
    ( /\ ~ yaml_safe_load(ReadText(img.text)).error
      /\ DisplayConfigInit(yaml_safe_load(ReadText(img.text))) )
        => ValidProfileModel(yaml_safe_load(ReadText(img.text)))

\* the handler of request i has ended after it selected or was given a source
\* and loaded the profile
Ended(i) ==
    /\ tasks[i].pc = "done"
    /\ tasks[i].filename # NoName
    /\ tasks[i].config # <<>>

\* the source of request i is missing
SourceMissing(i) == ~ file_path_exists(gallery, tasks[i].filename)

\* the source of request i is there and is not an image
SourceUndecodable(i) ==
    /\ file_path_exists(gallery, tasks[i].filename)
    /\ join("images", tasks[i].filename)[2] \in Undecodable

\* the status of the response to an internal error
InternalError == 500

\* C23: a request whose source is missing ends with NotFound (404), and a
\* request whose source cannot be decoded ends with an outcome that is
\* neither success nor the outcome of an internal error, on the by-name,
\* the Random and the Next path.
C23_SourceErrorsDistinct ==
    \A i \in Requests :
        Ended(i) =>
            /\ SourceMissing(i) => tasks[i].status = 404
            /\ SourceUndecodable(i) => tasks[i].status \notin {200, InternalError}

-----------------------------------------------------------------------------
(* The words of the specification for names *)

\* C24: the name test of duplicate and import accepts a name if and only if
\* the name matches [A-Za-z0-9_-]+.
C24_NameCheck ==
    last.op = "name_check" => (last.accepted <=> MatchesPattern(last.name))

\* C25: after any sequence of calls, every file of the persistent directory
\* has a name that matches [A-Za-z0-9_-]+.
C25_OverrideNames ==
    \A name \in Overrides(files) : MatchesPattern(name)

\* C26: no call changes the default directory: it has the files it was
\* shipped with, each with the content it was shipped with.
C26_DefaultTierFixed ==
    \A name \in Names :
        files[<<"default", name>>] = IF name = NameA THEN CfgDefault ELSE NoFile

\* the files of the persistent directory
OverrideTier(f) == [name \in Names |-> f[<<"persistent", name>>]]

\* C27: a save, reset, duplicate, delete or import that fails leaves the
\* persistent directory as it was before the call.
C27_FailureChangesNothing ==
    [][(/\ last'.op \in {"save", "reset", "duplicate", "delete", "import"}
        /\ last'.exc # "")
           => OverrideTier(files') = OverrideTier(files)]_vars

\* an import with overwrite and content that is not well-formed has failed
\* on a name with a persistent file, and the file has the content it had
C27_Witness ==
    /\ last.op = "import"
    /\ last.overwrite
    /\ last.exc = "ValueError"
    /\ last.why = "Invalid YAML"
    /\ last.was_custom
    /\ load_display_config(files, last.display_name) = last.before
    /\ last.before.exc = ""

RECURSIVE fed_back(_, _, _)
\* the index that the handler computes in the last of a number of calls, each
\* with the index of the call before as current_index, after a call that
\* computed index, over n eligible images
fed_back(index, calls, n) ==
    IF calls = 0 THEN index
    ELSE next_index(fed_back(index, calls - 1, n), n)

\* the caller that feeds the index of this reply back gets, over n unchanged
\* eligible images, each image once in n calls, in list order with
\* wraparound, and the image of this reply again after n calls
CyclesFrom(index, n) ==
    /\ {fed_back(index, calls, n) : calls \in 1..n} = 0..(n - 1)
    /\ fed_back(index, n, n) = index
    /\ fed_back(index, 1, n) = IF index = n - 1 THEN 0 ELSE index + 1

\* C28: a Next request with n >= 1 eligible images and an integer
\* current_index returns the selected image and its index, and a caller that
\* feeds each returned index back as current_index receives the eligible
\* images in the order of the collaborator with wraparound: each once in
\* any n calls, each again after exactly n calls (for a request that names
\* a valid profile and whose image is still in the gallery when the handler
\* reads it).
C28_NextCycles ==
    \A i \in Requests :
        ( /\ Returned(i)
          /\ tasks[i].op = "next"
          /\ WellFormedSelection(tasks[i])
          /\ NamesValidProfile(tasks[i])
          /\ tasks[i].eligible # <<>>
          /\ SourceRead(i) ) =>
            /\ tasks[i].status = 200
            /\ tasks[i].x_image_index # NoParam
            /\ int(tasks[i].x_image_index).value = tasks[i].next_index
            /\ tasks[i].x_selected_image = tasks[i].filename
            /\ InOrder(tasks[i].eligible)
            /\ tasks[i].filename
                   = tasks[i].eligible[tasks[i].next_index + 1].filename
            /\ CyclesFrom(tasks[i].next_index, Len(tasks[i].eligible))

\* the names of the calls that compare the two loaders
LoaderNames == Names \cup {AbsDefaultA}

\* the names of a list of list() entries, and of a list of names
NamesOf(entries) == {entries[i].name : i \in 1..Len(entries)}

\* C29: in every state of the store, for every name, the loader of the
\* render path fails with NotFound exactly when load does, opens the file
\* that load opens when it does not, and the available displays of a render
\* NotFound are the names that list() reports.
C29_LoadersAgree ==
    /\ \A name \in LoaderNames :
           /\ (module_load_display_config(files, name).exc = "FileNotFoundError")
                  <=> (load_display_config(files, name).exc = "FileNotFoundError")
           /\ get_display_config_file(files, name) # NoPath =>
                  module_config_file(files, name)
                      = get_display_config_file(files, name)
    /\ Range(list_available_displays(files)) = NamesOf(list_displays(files))

\* a name has both files and both loaders open the persistent one, a name
\* has only its default file, a name has none, and list() reports names
C29_Witness ==
    /\ last.op = "save"
    /\ last.exc = ""
    /\ last.display_name \in Defaults(files)
    /\ module_config_file(files, last.display_name)
           = <<"persistent", last.display_name>>
    /\ get_display_config_file(files, last.display_name)
           = <<"persistent", last.display_name>>
    /\ module_load_display_config(files, NameB).exc = "FileNotFoundError"
    /\ Range(list_available_displays(files)) = {NameA}

\* C30: when a render request has returned, the temporary directory it made
\* is removed and no file that the request created is left, whatever the
\* exit path was.
C30_NoArtifactLeft ==
    \A i \in Requests :
        tasks[i].pc = "done" =>
            /\ tasks[i].temp_dir # "exists"
            /\ tasks[i].artifacts = {}

====
